---- MODULE Spec2Model ----
(***************************************************************************)
(* Real-time logging pipeline of the CAN data logger firmware.             *)
(*                                                                         *)
(* Encrypted variant : src/CAN_Data_Logger_Encoded/                        *)
(*                     CAN_Data_Logger_Encoded.ino                         *)
(* Serial-command variant : src/Lastry_UI_mf4/Lastry.ino                   *)
(*                                                                         *)
(* Bytes and characters are ASCII codes.  A uint32_t is a pair <<hi, lo>>  *)
(* of 16-bit halves wherever its full width matters (nonce, cipher state), *)
(* since integers here are 32-bit signed.                                 *)
(***************************************************************************)
EXTENDS Integers, Sequences, FiniteSets, TLC

(* ------------------------------------------------------------------ *)
(* Program constants                                                    *)
(* ------------------------------------------------------------------ *)
LIVE_BUFFER_SIZE == 200

LIVE_DEFAULT_LIMIT == 50

NXT_LOG_VERSION == 1

NXT_HEADER_SIZE == 16

FLUSH_INTERVAL == 20

\* "earlyFlushCount < 5": the first writes that are flushed one by one
EARLY_FLUSH_WRITES == 5

DATA_TIMEOUT_MS == 2000

\* "millis() - lastSDCardCheck > 2000"
SD_CHECK_INTERVAL_MS == 2000

GMT_OFFSET_SEC == 19800

(* ------------------------------------------------------------------ *)
(* Bounds of the model                                                  *)
(* ------------------------------------------------------------------ *)
\* frames received in a ring-buffer run (2*C + 5 and a little more)
MaxPush == 407

\* number of distinct bus traffic patterns
NumPatterns == 2

\* frames received in a run of the storage state machine
MaxFrames == 2

\* storage faults injected in one run
MaxFaults == 2

\* /download requests served in one run, and the storage faults of such a run
MaxDownloads == 1

DownloadFaults == 1

\* millis() when setup() returns, the step of the clock, and its horizon
SetupMillis == 1000

TickMs == 2500

MaxTicks == 2

\* frames received in the runs with interleaving (the ring wraps at 201)
MaxRacePush == 202

\* a query under interleaving starts once this many frames are stored
RaceFrom == 199

\* largest limit such a query asks for
RaceLimit == 2

\* MAX_FILE_SIZE of the CSV sketch and of the serial-command sketch
\* (10485760 in both), scaled down so that a file with its header and two
\* records is over it
CsvFileSizeLimit == 1100

LastryFileSizeLimit == 200

\* frames received and storage faults injected in a run of those sketches,
\* and the horizon of their clock
PlainMaxFrames == 4

PlainMaxFaults == 1

PlainMaxTicks == 2

\* number of bytes encrypted in a run of the cipher on its own
MaxCipherLen == 3

\* the size limit of a log file, in bytes.  The sketches and their documents
\* set 10 MB (10485760); the files of the runs here hold a header and a
\* few records, so the limit is scaled down to lie between one and two
\* records above a fresh file.
\* frames the bus delivers without a pause during one loop() call, and
\* the loop() calls followed
BatchMaxFrames == 450

BatchMaxLoops == 2

\* frames of a long session, and the storage faults injected into it
FlushFrames == 39

FlushFaults == 1

\* the clock runs: millis() at the end of setup, the pauses between two
\* looks at the clock (ms), the last millis() followed, the frames stamped
ClockBoots == {0, 300, 1000}
ClockPauses == {50, 100, 950}
ClockMaxMillis == 1400
ClockMaxFrames == 2

FileSizeLimit == 300

\* what the RTC shows at power-up, as seconds since 1970 of its civil time
RtcEpoch == 1767225600

\* __DATE__ __TIME__ of the build, converted by mktime
CompileTime == 1750000000

(* ------------------------------------------------------------------ *)
(* Small arithmetic helpers                                             *)
(* ------------------------------------------------------------------ *)
\* the element of a one-element set.  A value that is used more than once is
\* bound as  x \in {value}  so that it is computed once.
The(S) == CHOOSE x \in S : TRUE

Min(a, b) == IF a < b THEN a ELSE b

Max(a, b) == IF a > b THEN a ELSE b

\* bitwise exclusive or of two naturals below 2^bits
RECURSIVE BitXor(_, _, _)
BitXor(a, b, bits) ==
    IF bits = 0 THEN 0
    ELSE ((a + b) % 2) + 2 * BitXor(a \div 2, b \div 2, bits - 1)

(* ------------------------------------------------------------------ *)
(* The bus: the k-th frame delivered by twai_receive                    *)
(* ------------------------------------------------------------------ *)
\* twai_message_t as delivered by the driver: the 8-byte data buffer holds
\* arbitrary bytes beyond data_length_code, and the DLC field may exceed 8.
RxFrame(p, k) ==
    [ identifier       |-> 256 + ((k + p) % 7),
      extd             |-> ((k + p) % 3 = 0),
      rtr              |-> ((k + p) % 6 = 0),
      data_length_code |-> (k + 2 * p) % 11,
      data             |-> [i \in 0..7 |-> (k * 7 + i * 13 + p * 31 + 1) % 256] ]


(* ------------------------------------------------------------------ *)
(* Text conversions (Arduino String / printf)                           *)
(* ------------------------------------------------------------------ *)
\* ASCII code of one hexadecimal digit, upper case ("%X", toUpperCase)
HexDigit(d) == IF d < 10 THEN 48 + d ELSE 55 + d

\* String(v, HEX) followed by toUpperCase(): no prefix, no padding
RECURSIVE HexUpper(_)
HexUpper(v) ==
    IF v < 16 THEN <<HexDigit(v)>>
    ELSE Append(HexUpper(v \div 16), HexDigit(v % 16))

\* "%02X" of one byte
Hex2(b) == <<HexDigit(b \div 16), HexDigit(b % 16)>>

\* String(v) of an unsigned value: decimal, no padding
RECURSIVE Dec(_)
Dec(v) ==
    IF v < 10 THEN <<48 + v>>
    ELSE Append(Dec(v \div 10), 48 + (v % 10))

\* "%0<w>d" of a non-negative value
RECURSIVE DecPad(_, _)
DecPad(v, w) ==
    IF w <= 1 THEN Dec(v)
    ELSE IF Len(Dec(v)) >= w THEN Dec(v)
    ELSE <<48>> \o DecPad(v, w - 1)

(* ------------------------------------------------------------------ *)
(* Calendar time (localtime)                                            *)
(* ------------------------------------------------------------------ *)
\* civil date of a day number counted from 1970-01-01 (proleptic Gregorian)
CivilFromDays(z0) ==
    LET z   == z0 + 719468
        era == z \div 146097
        doe == z - era * 146097
        yoe == (doe - doe \div 1460 + doe \div 36524 - doe \div 146096) \div 365
        doy == doe - (365 * yoe + yoe \div 4 - yoe \div 100)
        mp  == (5 * doy + 2) \div 153
        d   == doy - ((153 * mp + 2) \div 5) + 1
        m   == IF mp < 10 THEN mp + 3 ELSE mp - 9
        y   == yoe + era * 400 + (IF m <= 2 THEN 1 ELSE 0)
    IN  [year |-> y, mon |-> m, mday |-> d]

\* struct tm of localtime(&t) under a zone offset of tz seconds
LocalTime(t, tz) ==
    The({ [year |-> c.year, mon |-> c.mon, mday |-> c.mday,
           hour |-> ((t + tz) % 86400) \div 3600,
           min  |-> ((t + tz) % 3600) \div 60,
           sec  |-> (t + tz) % 60] :
          c \in {CivilFromDays((t + tz) \div 86400)} })

\* sprintf("%04d-%02d-%02d %02d:%02d:%02d", ...)
FormatTime(t, tz) ==
    The({ DecPad(tm.year, 4) \o <<45>> \o DecPad(tm.mon, 2) \o <<45>> \o
          DecPad(tm.mday, 2) \o <<32>> \o DecPad(tm.hour, 2) \o <<58>> \o
          DecPad(tm.min, 2) \o <<58>> \o DecPad(tm.sec, 2) :
          tm \in {LocalTime(t, tz)} })


(* ------------------------------------------------------------------ *)
(* State                                                                *)
(* ------------------------------------------------------------------ *)
VARIABLES
    scenario,            \* the boot situation of this run (fixed per run)
    canInitialized,      \* bool canInitialized
    cardPresent,         \* an accessible SD card is in the slot
    faults,              \* storage faults injected so far
    millis,              \* millis()
    bootMillis,          \* unsigned long bootMillis
    baseTime,            \* time_t baseTime
    lastSDCardCheck,     \* static unsigned long lastSDCardCheck (loop)
    lastCANReinitAttempt,\* static unsigned long lastCANReinitAttempt (loop)
    writer,              \* the log file writer's globals and the card
    messageCount,        \* unsigned long messageCount
    liveFrameBuffer,     \* LiveFrame liveFrameBuffer[LIVE_BUFFER_SIZE]
    liveFrameCounter,    \* uint32_t liveFrameCounter
    dataTransferActive,  \* bool dataTransferActive
    lastDataReceivedTime,\* unsigned long lastDataReceivedTime
    led,                 \* colour last given to setLED
    pc,                  \* position inside the handling of one frame
    rx,                  \* the frame being handled, with its time stamp
    frameStats,          \* what the handling of the current frame did so far
    liveResponse,        \* the /live response sent by the handler that just ran
    download,            \* what the /download handler that just ran did
    race,                \* producer and consumer positions (field-level runs)
    csv,                 \* the globals and the card of the CSV sketch (part_001)
    lastry,              \* the globals and the card of the serial-command sketch
    unit                 \* a function exercised on its own: inputs and results

vars ==
    <<scenario, canInitialized, cardPresent, faults, millis, bootMillis,
      baseTime, lastSDCardCheck, lastCANReinitAttempt, writer,
      messageCount, liveFrameBuffer,
      liveFrameCounter, dataTransferActive, lastDataReceivedTime, led, pc,
      rx, frameStats, liveResponse, download, race, csv, lastry, unit>>

\* the variables of the encrypted logger
encodedVars ==
    <<scenario, canInitialized, cardPresent, faults, millis, bootMillis,
      baseTime, lastSDCardCheck, lastCANReinitAttempt, writer,
      messageCount, liveFrameBuffer,
      liveFrameCounter, dataTransferActive, lastDataReceivedTime, led, pc,
      rx, frameStats, liveResponse, download, race>>

\* a sketch that is not the one running on the board, a function that is
\* not the one exercised
NotFlashed == [running |-> FALSE]

(* ------------------------------------------------------------------ *)
(* Live ring buffer                                                     *)
(* ------------------------------------------------------------------ *)
\* a zero-initialised LiveFrame (the global array before any push)
EmptyLiveFrame ==
    [ seq |-> 0, unixTime |-> 0, micros |-> 0, timeText |-> <<>>,
      identifier |-> 0, extended |-> FALSE, rtr |-> FALSE, dlc |-> 0,
      data |-> [i \in 0..7 |-> 0] ]

\* the slot contents storeLiveFrame writes for one frame
LiveFrameOf(nextSeq, frame, timestamp, micros, formattedTime) ==
    [ seq        |-> nextSeq,
      unixTime   |-> timestamp,
      micros     |-> micros,
      timeText   |-> formattedTime,
      identifier |-> frame.identifier,
      extended   |-> frame.extd,
      rtr        |-> frame.rtr,
      dlc        |-> frame.data_length_code,
      data       |-> [i \in 0..7 |->
                        IF i < frame.data_length_code THEN frame.data[i] ELSE 0] ]

\* The array is held as a function over the slots written so far; a slot
\* never written still has its zero initialisation.
Slot(buffer, i) == IF i \in DOMAIN buffer THEN buffer[i] ELSE EmptyLiveFrame

PutSlot(buffer, i, v) ==
    [j \in (DOMAIN buffer) \cup {i} |-> IF j = i THEN v ELSE buffer[j]]

\* slots indexed by the sequence number itself
SlotIndexOfSeq(seq) == seq % LIVE_BUFFER_SIZE

\* slot index used for sequence number seq
SlotIndex(seq) == (seq - 1) % LIVE_BUFFER_SIZE

\* the slot written but the counter left where it was
storeLiveFrameKeepsCounter(buffer, counter, frame, timestamp, micros, text) ==
    [ buffer  |-> PutSlot(buffer, SlotIndex(counter + 1),
                          LiveFrameOf(counter + 1, frame, timestamp, micros,
                                      text)),
      counter |-> counter ]

\* storeLiveFrame: the new (buffer, counter) pair
storeLiveFrame(buffer, counter, frame, timestamp, micros, formattedTime) ==
    LET nextSeq == counter + 1
    IN  [ buffer  |-> PutSlot(buffer, SlotIndex(nextSeq),
                              LiveFrameOf(nextSeq, frame, timestamp, micros,
                                          formattedTime)),
          counter |-> nextSeq ]

\* request parsing of handleLiveData: "since" (absent or not positive -> 0)
ParseSince(hasSince, sinceArg) ==
    IF hasSince /\ sinceArg > 0 THEN sinceArg ELSE 0

\* request parsing of handleLiveData: "limit", constrained to 1..LIVE_BUFFER_SIZE
ParseLimit(hasLimit, requested) ==
    IF hasLimit /\ requested > 0
    THEN Max(1, Min(requested, LIVE_BUFFER_SIZE))
    ELSE LIVE_DEFAULT_LIMIT

\* oldest sequence number still retained
EarliestSeq(counter) ==
    IF counter >= LIVE_BUFFER_SIZE THEN counter - LIVE_BUFFER_SIZE + 1 ELSE 1

\* the start computed from "since" itself instead of the sequence after it
StartSeqAtSince(counter, since) ==
    LET earliestSeq == EarliestSeq(counter)
        s0 == IF since > 0 THEN since ELSE earliestSeq
        s1 == IF s0 < earliestSeq THEN earliestSeq ELSE s0
    IN  IF s1 > counter THEN counter ELSE s1

\* first sequence number the query loop visits
StartSeq(counter, since) ==
    LET earliestSeq == EarliestSeq(counter)
        s0 == IF since > 0 THEN since + 1 ELSE earliestSeq
        s1 == IF s0 < earliestSeq THEN earliestSeq ELSE s0
    IN  IF s1 > counter THEN counter ELSE s1

\* the staleness test of the query loop: is the slot still the one for seq
SlotIsCurrent(slot, seq) == slot.seq = seq

\* the entry with the two flags exchanged
LiveEntrySwapsFlags(slot) ==
    [ seq      |-> slot.seq,
      time     |-> slot.timeText,
      unix     |-> slot.unixTime,
      micros   |-> slot.micros,
      id       |-> HexUpper(slot.identifier),
      extended |-> slot.rtr,
      rtr      |-> slot.extended,
      dlc      |-> slot.dlc,
      data     |-> [i \in 1..Min(slot.dlc, 8) |-> Hex2(slot.data[i - 1])] ]

\* one JSON entry of the response
LiveEntry(slot) ==
    [ seq      |-> slot.seq,
      time     |-> slot.timeText,
      unix     |-> slot.unixTime,
      micros   |-> slot.micros,
      id       |-> HexUpper(slot.identifier),
      extended |-> slot.extended,
      rtr      |-> slot.rtr,
      dlc      |-> slot.dlc,
      data     |-> [i \in 1..Min(slot.dlc, 8) |-> Hex2(slot.data[i - 1])] ]

\* the query loop: for (seq = lo; seq <= hi && added < limit; seq++), entries
\* whose slot is stale are skipped; the range is split in halves so that the
\* evaluation nests only logarithmically deep, the visiting order is the loop's
RECURSIVE LiveQueryFrames(_, _, _, _)
LiveQueryFrames(buffer, lo, hi, limit) ==
    IF lo > hi \/ limit <= 0 THEN <<>>
    ELSE IF lo = hi
         THEN IF SlotIsCurrent(Slot(buffer, SlotIndex(lo)), lo)
              THEN <<LiveEntry(Slot(buffer, SlotIndex(lo)))>>
              ELSE <<>>
    ELSE The({ left \o LiveQueryFrames(buffer, (lo + hi) \div 2 + 1, hi,
                                       limit - Len(left)) :
               left \in {LiveQueryFrames(buffer, lo, (lo + hi) \div 2, limit)} })

\* handleLiveData without interleaving: the response body
handleLiveData(buffer, counter, hasSince, sinceArg, hasLimit, requested) ==
    LET since == ParseSince(hasSince, sinceArg)
        limit == ParseLimit(hasLimit, requested)
    IN  [ latest |-> counter,
          since  |-> since,
          limit  |-> limit,
          frames |-> IF counter > 0
                     THEN LiveQueryFrames(buffer, StartSeq(counter, since),
                                          counter, limit)
                     ELSE <<>> ]


(* ------------------------------------------------------------------ *)
(* 32-bit words as <<hi16, lo16>>                                       *)
(* ------------------------------------------------------------------ *)
\* exclusive or of two nibbles, tabulated once
XorNibble == [a \in 0..15 |-> [b \in 0..15 |-> BitXor(a, b, 4)]]

\* exclusive or of two bytes
Xor8(a, b) ==
    16 * XorNibble[a \div 16][b \div 16] + XorNibble[a % 16][b % 16]

\* exclusive or of two 16-bit values
Xor16(a, b) == 256 * Xor8(a \div 256, b \div 256) + Xor8(a % 256, b % 256)

\* exclusive or of two 32-bit words
Xor32(x, y) == <<Xor16(x[1], y[1]), Xor16(x[2], y[2])>>

\* (uint32_t) of a small non-negative integer
Word(v) == <<(v \div 65536) % 65536, v % 65536>>

\* (uint32_t)v << 16
Shl16(v) == <<v % 65536, 0>>

\* 0xA5A5A5A5
CIPHER_MASK == <<42405, 42405>>

\* the same step with the carry out of the low half lost
LcgStepDropsCarry(state, add) ==
    LET lo == state[2] * 26125 + 62303 + add
        hi == state[1] * 26125 + state[2] * 25 + 15470
    IN  <<hi % 65536, lo % 65536>>

\* state * 1664525UL + 1013904223UL + add, modulo 2^32
\* (1664525 = 25 * 2^16 + 26125, 1013904223 = 15470 * 2^16 + 62303)
LcgStep(state, add) ==
    LET lo == state[2] * 26125 + 62303 + add
        hi == state[1] * 26125 + state[2] * 25 + 15470 + (lo \div 65536)
    IN  <<hi % 65536, lo % 65536>>

(* ------------------------------------------------------------------ *)
(* Stream cipher                                                        *)
(* ------------------------------------------------------------------ *)
ENCRYPTION_KEY ==
    <<58, 124, 181, 25, 228, 88, 193, 13, 146, 175, 99, 39, 254, 52, 136, 75>>

\* generateFileNonce: esp_random() ^ millis() ^ (bootMillis << 16), never 0
generateFileNonce(randomVal, ms, bootMs) ==
    LET v == Xor32(Xor32(randomVal, Word(ms)), Shl16(bootMs))
    IN  IF v = <<0, 0>> THEN Xor32(Word(ms), CIPHER_MASK) ELSE v

\* the key-folding loop of resetCipherState, key bytes i..16
RECURSIVE FoldKey(_, _)
FoldKey(state, i) ==
    IF i > 16 THEN state
    ELSE The({ FoldKey(next, i + 1) :
               next \in {LcgStep(state, ENCRYPTION_KEY[i])} })

\* resetCipherState: the cipher state for a nonce
resetCipherState(nonce) ==
    The({ FoldKey(seed, 1) : seed \in {Xor32(nonce, CIPHER_MASK)} })

\* the state update of encryptByte
CipherAdvance(state) == LcgStep(state, 0)

\* the keystream byte encryptByte derives from the advanced state
StreamByte(state) ==
    Xor8(state[1] \div 256, ENCRYPTION_KEY[(state[2] % 16) + 1])

\* a cipher that adds the keystream byte instead of XORing it
encryptByteAddsStream(state, inputByte) ==
    The({ <<(inputByte + StreamByte(next)) % 256, next>> :
          next \in {CipherAdvance(state)} })

\* encryptByte: <<output byte, new state>>
encryptByte(state, inputByte) ==
    The({ <<Xor8(inputByte, StreamByte(next)), next>> :
          next \in {CipherAdvance(state)} })

\* the n cipher states that n successive encryptByte calls go through;
\* halved recursively so that the evaluation nests only logarithmically deep
RECURSIVE CipherStates(_, _)
CipherStates(state, n) ==
    IF n = 0 THEN <<>>
    ELSE IF n = 1 THEN <<encryptByte(state, 0)[2]>>
    ELSE The({ left \o CipherStates(left[Len(left)], n - (n \div 2)) :
               left \in {CipherStates(state, n \div 2)} })

\* encryptByte applied to every byte of a buffer in order
EncryptBytes(state, bytes) ==
    The({ [ out   |-> [i \in 1..Len(bytes) |->
                         Xor8(bytes[i], StreamByte(st[i]))],
            state |-> IF Len(bytes) = 0 THEN state ELSE st[Len(bytes)] ] :
          st \in {CipherStates(state, Len(bytes))} })


(* ------------------------------------------------------------------ *)
(* Record encoder                                                       *)
(* ------------------------------------------------------------------ *)
Comma == <<44>>

Newline == 10

\* 10^n
RECURSIVE Pow10(_)
Pow10(n) == IF n = 0 THEN 1 ELSE 10 * Pow10(n - 1)

\* String(value, decimalPlaces) of a float; the value is given in millionths
FloatStr(v, decimalPlaces) ==
    LET mag     == IF v < 0 THEN 0 - v ELSE v
        scale   == Pow10(6 - decimalPlaces)
        rounded == (mag + scale \div 2) \div scale
        whole   == rounded \div Pow10(decimalPlaces)
        frac    == rounded % Pow10(decimalPlaces)
    IN  (IF v < 0 THEN <<45>> ELSE <<>>) \o Dec(whole) \o <<46>> \o
        DecPad(frac, decimalPlaces)

\* "Timestamp,UnixTime,Microseconds,ID,Extended,RTR,DLC"
HeaderLineCan ==
    <<84, 105, 109, 101, 115, 116, 97, 109, 112, 44, 85, 110, 105, 120, 84,
      105, 109, 101, 44, 77, 105, 99, 114, 111, 115, 101, 99, 111, 110, 100,
      115, 44, 73, 68, 44, 69, 120, 116, 101, 110, 100, 101, 100, 44, 82, 84,
      82, 44, 68, 76, 67>>

\* ",Data" + String(i)
HeaderLineData(i) == <<44, 68, 97, 116, 97>> \o Dec(i)

\* ",LinearAccelX,LinearAccelY,LinearAccelZ,Gravity"
HeaderLineImu ==
    <<44, 76, 105, 110, 101, 97, 114, 65, 99, 99, 101, 108, 88, 44, 76, 105,
      110, 101, 97, 114, 65, 99, 99, 101, 108, 89, 44, 76, 105, 110, 101, 97,
      114, 65, 99, 99, 101, 108, 90, 44, 71, 114, 97, 118, 105, 116, 121>>

\* ",GPS_Lat,GPS_Lon,GPS_Alt,GPS_Speed,GPS_Course,GPS_Sats,GPS_HDOP,GPS_Time"
HeaderLineGps ==
    <<44, 71, 80, 83, 95, 76, 97, 116, 44, 71, 80, 83, 95, 76, 111, 110, 44,
      71, 80, 83, 95, 65, 108, 116, 44, 71, 80, 83, 95, 83, 112, 101, 101,
      100, 44, 71, 80, 83, 95, 67, 111, 117, 114, 115, 101, 44, 71, 80, 83,
      95, 83, 97, 116, 115, 44, 71, 80, 83, 95, 72, 68, 79, 80, 44, 71, 80,
      83, 95, 84, 105, 109, 101>>

\* the CSV header line built by writeFileHeader
HeaderLine ==
    HeaderLineCan \o HeaderLineData(0) \o HeaderLineData(1) \o
    HeaderLineData(2) \o HeaderLineData(3) \o HeaderLineData(4) \o
    HeaderLineData(5) \o HeaderLineData(6) \o HeaderLineData(7) \o
    HeaderLineImu \o HeaderLineGps

\* a data column that shows the buffer's byte whatever the DLC
DataColumnShowsBuffer(frame, dlc, i) ==
    Comma \o (IF frame.data[i] < 16 THEN <<48>> ELSE <<>>) \o
    HexUpper(frame.data[i])

\* one data column of a record: two upper-case hex digits, "00" beyond the DLC
DataColumn(frame, dlc, i) ==
    Comma \o (IF i < dlc
              THEN (IF frame.data[i] < 16 THEN <<48>> ELSE <<>>) \o
                   HexUpper(frame.data[i])
              ELSE <<48, 48>>)

\* the eight data columns
DataColumns(frame) ==
    LET dlc == IF frame.data_length_code > 8 THEN 8 ELSE frame.data_length_code
    IN  DataColumn(frame, dlc, 0) \o DataColumn(frame, dlc, 1) \o
        DataColumn(frame, dlc, 2) \o DataColumn(frame, dlc, 3) \o
        DataColumn(frame, dlc, 4) \o DataColumn(frame, dlc, 5) \o
        DataColumn(frame, dlc, 6) \o DataColumn(frame, dlc, 7)

\* IMU columns that take the first value as soon as the IMU is detected
ImuColumnsFirstOnDetection(sn) ==
    LET live == sn.imuAvailable /\ sn.imuHasData
    IN  Comma \o FloatStr(IF sn.imuAvailable THEN sn.linearAccelX ELSE 0, 4) \o
        Comma \o FloatStr(IF live THEN sn.linearAccelY ELSE 0, 4) \o
        Comma \o FloatStr(IF live THEN sn.linearAccelZ ELSE 0, 4) \o
        Comma \o FloatStr(IF live THEN sn.gravityAccel ELSE 0, 4)

\* the four IMU columns (zeros while the IMU has no data)
ImuColumns(sn) ==
    LET live == sn.imuAvailable /\ sn.imuHasData
    IN  Comma \o FloatStr(IF live THEN sn.linearAccelX ELSE 0, 4) \o
        Comma \o FloatStr(IF live THEN sn.linearAccelY ELSE 0, 4) \o
        Comma \o FloatStr(IF live THEN sn.linearAccelZ ELSE 0, 4) \o
        Comma \o FloatStr(IF live THEN sn.gravityAccel ELSE 0, 4)

\* GPS columns with one zero short without a fix
GpsColumnsShortWithoutFix(sn) ==
    IF sn.gpsHasFix
    THEN Comma \o FloatStr(sn.gpsLat, 6) \o Comma \o FloatStr(sn.gpsLon, 6) \o
         Comma \o FloatStr(sn.gpsAlt, 2) \o Comma \o FloatStr(sn.gpsSpeed, 2) \o
         Comma \o FloatStr(sn.gpsCourse, 2) \o Comma \o Dec(sn.gpsSats) \o
         Comma \o FloatStr(sn.gpsHdop, 2) \o Comma \o sn.gpsTimeText
    ELSE <<44, 48, 44, 48, 44, 48, 44, 48, 44, 48, 44, 48, 44, 48>>

\* the eight GPS columns (",0,0,0,0,0,0,0,0" without a fix)
GpsColumns(sn) ==
    IF sn.gpsHasFix
    THEN Comma \o FloatStr(sn.gpsLat, 6) \o Comma \o FloatStr(sn.gpsLon, 6) \o
         Comma \o FloatStr(sn.gpsAlt, 2) \o Comma \o FloatStr(sn.gpsSpeed, 2) \o
         Comma \o FloatStr(sn.gpsCourse, 2) \o Comma \o Dec(sn.gpsSats) \o
         Comma \o FloatStr(sn.gpsHdop, 2) \o Comma \o sn.gpsTimeText
    ELSE <<44, 48, 44, 48, 44, 48, 44, 48, 44, 48, 44, 48, 44, 48, 44, 48>>

\* a record text that carries its own line end, as println would add it
RecordLineWithLineEnd(frame, timestamp, micros, sn, zone) ==
    FormatTime(timestamp, zone) \o Comma \o Dec(timestamp) \o Comma \o
    Dec(micros) \o Comma \o HexUpper(frame.identifier) \o Comma \o
    (IF frame.extd THEN <<49>> ELSE <<48>>) \o Comma \o
    (IF frame.rtr THEN <<49>> ELSE <<48>>) \o Comma \o
    Dec(frame.data_length_code) \o DataColumns(frame) \o
    ImuColumns(sn) \o GpsColumns(sn) \o <<Newline>>

\* the CSV text writeCANMessage builds for one record (no newline)
RecordLine(frame, timestamp, micros, sn, zone) ==
    FormatTime(timestamp, zone) \o Comma \o Dec(timestamp) \o Comma \o
    Dec(micros) \o Comma \o HexUpper(frame.identifier) \o Comma \o
    (IF frame.extd THEN <<49>> ELSE <<48>>) \o Comma \o
    (IF frame.rtr THEN <<49>> ELSE <<48>>) \o Comma \o
    Dec(frame.data_length_code) \o DataColumns(frame) \o
    ImuColumns(sn) \o GpsColumns(sn)

\* IMU absent, no GPS fix
SensorsNone ==
    [ imuAvailable |-> FALSE, imuHasData |-> FALSE,
      linearAccelX |-> 0, linearAccelY |-> 0, linearAccelZ |-> 0,
      gravityAccel |-> 0, gpsHasFix |-> FALSE,
      gpsLat |-> 0, gpsLon |-> 0, gpsAlt |-> 0, gpsSpeed |-> 0,
      gpsCourse |-> 0, gpsSats |-> 0, gpsHdop |-> 0, gpsTimeText |-> <<48>> ]

\* IMU delivering data and a GPS fix (values in millionths; "12:35:19")
SensorsAll ==
    [ imuAvailable |-> TRUE, imuHasData |-> TRUE,
      linearAccelX |-> 125000, linearAccelY |-> 0 - 1500000,
      linearAccelZ |-> 62500, gravityAccel |-> 9812500, gpsHasFix |-> TRUE,
      gpsLat |-> 18520430, gpsLon |-> 73856744, gpsAlt |-> 560250000,
      gpsSpeed |-> 42500000, gpsCourse |-> 181250000, gpsSats |-> 9,
      gpsHdop |-> 1250000,
      gpsTimeText |-> <<49, 50, 58, 51, 53, 58, 49, 57>> ]

\* the sensor situations a run may be in
SensorStates ==
    { SensorsNone, SensorsAll,
      [SensorsAll EXCEPT !.gpsHasFix = FALSE],
      [SensorsAll EXCEPT !.imuHasData = FALSE] }


(* ------------------------------------------------------------------ *)
(* Log file writer.  The writer's globals travel through the operators  *)
(* as one record w whose fields carry the globals' names:               *)
(*   sdCardReady, logFile = [open, name], currentLogFileName,           *)
(*   currentFileSize, currentFileNonce, currentCipherState,             *)
(*   flushCounter, earlyFlushCount,                                     *)
(*   unflushed (records written since the file was last flushed),       *)
(*   disk (file name -> bytes), dirExists (/CAN_Logged_Data),           *)
(*   cipherSteps (encryptByte calls since resetCipherState),            *)
(*   createdNames (names of the files created so far, in order),        *)
(*   byteFailures (writeEncryptedLine calls in which a byte write       *)
(*   failed), createdNonces (the nonces of the files created so far),   *)
(*   lastClose (what the last closeCurrentFile call found and left),    *)
(*   lastWriteMillis (millis() of the last record written, -1: none),   *)
(*   submitted (the frames handed to writeCANMessage, in order),        *)
(*   text (file name -> the bytes handed to encryptByte whose           *)
(*   ciphertext is in the file: what the file's payload decrypts to).   *)
(* Every storage call fails while the card is absent; on a present card *)
(* a call fails where the injected fault says so.                       *)
(* ------------------------------------------------------------------ *)
NoFile == [open |-> FALSE, name |-> <<>>]

\* lastClose before closeCurrentFile has run
NoClose ==
    [ done |-> FALSE, wasOpen |-> FALSE, open |-> FALSE, unflushed |-> 0,
      sizeBefore |-> 0, sizeAfter |-> 0 ]

\* faults that can be injected into one createNewLogFile call
CreateFaults == {"none", "mkdir", "open", "header", "mid"}

\* faults that can be injected into the write of one line
LineFaults == {"none", "mid", "newline"}

\* index of the byte whose write fails (Len(line) is the newline), -1: none
FailAt(fault, line) ==
    CASE fault = "mid"     -> Len(line) \div 2
      [] fault = "newline" -> Len(line)
      [] OTHER             -> 0 - 1

\* "/CAN_Logged_Data/CAN_LOG_YYYYMMDD_HHMMSS.NXT" from baseTime
generateLogFileName(base, zone) ==
    The({ <<47, 67, 65, 78, 95, 76, 111, 103, 103, 101, 100, 95, 68, 97, 116,
            97, 47>> \o <<67, 65, 78, 95, 76, 79, 71, 95>> \o
          DecPad(tm.year, 4) \o DecPad(tm.mon, 2) \o DecPad(tm.mday, 2) \o
          <<95>> \o DecPad(tm.hour, 2) \o DecPad(tm.min, 2) \o
          DecPad(tm.sec, 2) \o <<46, 78, 88, 84>> :
          tm \in {LocalTime(base, zone)} })

\* a header that stores the nonce with its most significant byte first
FileHeaderBytesBigEndian(nonce) ==
    <<78, 88, 84, 76, 79, 71>> \o <<NXT_LOG_VERSION, NXT_HEADER_SIZE>> \o
    <<nonce[1] \div 256, nonce[1] % 256, nonce[2] \div 256, nonce[2] % 256>> \o
    <<0, 0, 0, 0>>

\* the 16 unencrypted bytes writeFileHeader puts first:
\* "NXTLOG", version, header size, nonce (little-endian), reserved
FileHeaderBytes(nonce) ==
    <<78, 88, 84, 76, 79, 71>> \o <<NXT_LOG_VERSION, NXT_HEADER_SIZE>> \o
    <<nonce[2] % 256, nonce[2] \div 256, nonce[1] % 256, nonce[1] \div 256>> \o
    <<0, 0, 0, 0>>

\* SD.open(name, FILE_WRITE): arduino-esp32 opens with mode "w", which
\* creates the file or truncates an existing one to length 0
OpenForWrite(disk, name) ==
    [n \in (DOMAIN disk) \cup {name} |-> IF n = name THEN <<>> ELSE disk[n]]

\* bytes appended through the open handle
AppendBytes(disk, name, bytes) == [disk EXCEPT ![name] = @ \o bytes]

\* the handle left as it is
closeCurrentFileKeepsHandle(w) == w

\* closeCurrentFile that also zeroes the byte counter
closeCurrentFileClearsCounter(w) ==
    The({ [w1 EXCEPT !.lastClose =
                 [ done |-> TRUE, wasOpen |-> w.logFile.open,
                   open |-> w1.logFile.open, unflushed |-> w1.unflushed,
                   sizeBefore |-> w.currentFileSize,
                   sizeAfter |-> w1.currentFileSize ]] :
          w1 \in {IF w.logFile.open
                  THEN [w EXCEPT !.logFile = NoFile, !.unflushed = 0,
                                 !.currentFileSize = 0]
                  ELSE w} })

\* closeCurrentFile: flush, close and clear the handle; currentFileSize is
\* only printed.  lastClose records what the call found and what it left.
closeCurrentFile(w) ==
    The({ [w1 EXCEPT !.lastClose =
                 [ done |-> TRUE, wasOpen |-> w.logFile.open,
                   open |-> w1.logFile.open, unflushed |-> w1.unflushed,
                   sizeBefore |-> w.currentFileSize,
                   sizeAfter |-> w1.currentFileSize ]] :
          w1 \in {IF w.logFile.open
                  THEN [w EXCEPT !.logFile = NoFile, !.unflushed = 0]
                  ELSE w} })

\* writeEncryptedLine that reports the newline's write as failed although the
\* byte reached the card
writeEncryptedLineReportsLate(w, card, line, fault) ==
    IF ~w.logFile.open THEN <<w, FALSE>>
    ELSE
    LET failAt == IF card THEN FailAt(fault, line) ELSE 0
        calls  == IF failAt < 0 THEN Len(line) + 1 ELSE failAt + 1
        kept   == IF failAt = Len(line) THEN calls ELSE failAt
    IN  The({ IF failAt < 0
              THEN <<[w EXCEPT !.currentCipherState = enc.state,
                               !.cipherSteps = @ + calls,
                               !.disk = AppendBytes(@, w.logFile.name, enc.out),
                               !.text = AppendBytes(@, w.logFile.name,
                                                    Append(line, Newline)),
                               !.currentFileSize = @ + Len(line) + 1], TRUE>>
              ELSE <<[closeCurrentFile(
                        [w EXCEPT !.currentCipherState = enc.state,
                                  !.cipherSteps = @ + calls,
                                  !.byteFailures = @ + 1,
                                  !.disk = AppendBytes(@, w.logFile.name,
                                               SubSeq(enc.out, 1, kept)),
                                  !.text = AppendBytes(@, w.logFile.name,
                                               SubSeq(Append(line, Newline),
                                                      1, kept))])
                      EXCEPT !.sdCardReady = FALSE], FALSE>> :
              enc \in {EncryptBytes(w.currentCipherState,
                                    SubSeq(Append(line, Newline), 1, calls))} })

\* writeEncryptedLine: <<new writer, returned value>>.  encryptByte runs for
\* every byte up to and including the one whose write fails; byteFailures
\* counts the calls in which a byte write failed.
writeEncryptedLine(w, card, line, fault) ==
    IF ~w.logFile.open THEN <<w, FALSE>>
    ELSE
    LET failAt == IF card THEN FailAt(fault, line) ELSE 0
        calls  == IF failAt < 0 THEN Len(line) + 1 ELSE failAt + 1
    IN  The({ IF failAt < 0
              THEN <<[w EXCEPT !.currentCipherState = enc.state,
                               !.cipherSteps = @ + calls,
                               !.disk = AppendBytes(@, w.logFile.name, enc.out),
                               !.text = AppendBytes(@, w.logFile.name,
                                                    Append(line, Newline)),
                               !.currentFileSize = @ + Len(line) + 1], TRUE>>
              ELSE <<[closeCurrentFile(
                        [w EXCEPT !.currentCipherState = enc.state,
                                  !.cipherSteps = @ + calls,
                                  !.byteFailures = @ + 1,
                                  !.disk = AppendBytes(@, w.logFile.name,
                                               SubSeq(enc.out, 1, failAt)),
                                  !.text = AppendBytes(@, w.logFile.name,
                                               SubSeq(Append(line, Newline),
                                                      1, failAt))])
                      EXCEPT !.sdCardReady = FALSE], FALSE>> :
              enc \in {EncryptBytes(w.currentCipherState,
                                    SubSeq(Append(line, Newline), 1, calls))} })

\* esp_random(): the i-th word of the hardware generator's output in a run
RandomWord(stream, i) ==
    IF stream = 0 THEN <<4660, 22136>>
    ELSE <<(i * 40503 + 7) % 65536, (i * 25173 + 13849) % 65536>>

\* What the surroundings supply to one storage call sequence, env:
\*   card (medium present), baseTime, zone, millis, bootMillis,
\*   stream (the random generator's output), sensors
\* writeFileHeader: <<new writer, returned value>>
writeFileHeader(w, env, fault) ==
    IF ~w.logFile.open THEN <<w, FALSE>>
    ELSE
    The({ IF ~env.card \/ fault = "header"
          THEN <<[w EXCEPT !.currentFileNonce = nonce,
                           !.randomDraws = @ + 1], FALSE>>
          ELSE The({ writeEncryptedLine(w2, env.card, HeaderLine, fault) :
                     w2 \in {[w EXCEPT
                                !.currentFileNonce = nonce,
                                !.randomDraws = @ + 1,
                                !.disk = AppendBytes(@, w.logFile.name,
                                                     FileHeaderBytes(nonce)),
                                !.currentFileSize =
                                    Len(w.disk[w.logFile.name]) + NXT_HEADER_SIZE,
                                !.currentCipherState = resetCipherState(nonce),
                                !.cipherSteps = 0]} }) :
          nonce \in {generateFileNonce(RandomWord(env.stream, w.randomDraws),
                                       env.millis, env.bootMillis)} })

\* createNewLogFile without the logFile.close() after a failed header
createNewLogFileKeepsHandle(w, env, fault) ==
    The({ IF ~env.card \/ (~w1.dirExists /\ fault = "mkdir")
          THEN <<w1, FALSE>>
          ELSE IF fault = "open"
          THEN <<[w1 EXCEPT !.dirExists = TRUE, !.currentLogFileName = name],
                 FALSE>>
          ELSE The({ IF ~hd[2]
                     THEN <<hd[1], FALSE>>
                     ELSE <<[hd[1] EXCEPT
                               !.currentFileSize = Len(hd[1].disk[name]),
                               !.createdNames = Append(@, name),
                               !.createdNonces =
                                   Append(@, hd[1].currentFileNonce)],
                            TRUE>> :
                     hd \in {The({ writeFileHeader(w3, env, fault) :
                                   w3 \in {[w1 EXCEPT
                                              !.dirExists = TRUE,
                                              !.currentLogFileName = name,
                                              !.disk = OpenForWrite(@, name),
                                              !.text = OpenForWrite(@, name),
                                              !.logFile = [open |-> TRUE,
                                                           name |-> name]]} })} }) :
          w1 \in {closeCurrentFile(w)},
          name \in {generateLogFileName(env.baseTime, env.zone)} })

\* createNewLogFile: <<new writer, returned value>>
createNewLogFile(w, env, fault) ==
    The({ IF ~env.card \/ (~w1.dirExists /\ fault = "mkdir")
          THEN <<w1, FALSE>>
          ELSE IF fault = "open"
          THEN <<[w1 EXCEPT !.dirExists = TRUE, !.currentLogFileName = name],
                 FALSE>>
          ELSE The({ IF ~hd[2]
                     THEN <<[hd[1] EXCEPT !.logFile = NoFile], FALSE>>
                     ELSE <<[hd[1] EXCEPT
                               !.currentFileSize = Len(hd[1].disk[name]),
                               !.createdNames = Append(@, name),
                               !.createdNonces =
                                   Append(@, hd[1].currentFileNonce)],
                            TRUE>> :
                     hd \in {The({ writeFileHeader(w3, env, fault) :
                                   w3 \in {[w1 EXCEPT
                                              !.dirExists = TRUE,
                                              !.currentLogFileName = name,
                                              !.disk = OpenForWrite(@, name),
                                              !.text = OpenForWrite(@, name),
                                              !.logFile = [open |-> TRUE,
                                                           name |-> name]]} })} }) :
          w1 \in {closeCurrentFile(w)},
          name \in {generateLogFileName(env.baseTime, env.zone)} })

\* initializeSDCard: SD.begin, card type and the access test
initializeSDCard(card, fault) == card /\ fault = "none"

\* a flush policy that lets the counter pass the interval by one
FlushPolicyFlushesLate(w) ==
    LET fc    == w.flushCounter + 1
        early == w.earlyFlushCount < EARLY_FLUSH_WRITES
        full  == fc > FLUSH_INTERVAL
    IN  [w EXCEPT !.flushCounter = IF full THEN 0 ELSE fc,
                  !.earlyFlushCount = IF early THEN @ + 1 ELSE @,
                  !.unflushed = IF early \/ full THEN 0 ELSE @ + 1]

\* the flush policy at the end of a successful writeCANMessage
FlushPolicy(w) ==
    LET fc    == w.flushCounter + 1
        early == w.earlyFlushCount < EARLY_FLUSH_WRITES
        full  == fc >= FLUSH_INTERVAL
    IN  [w EXCEPT !.flushCounter = IF full THEN 0 ELSE fc,
                  !.earlyFlushCount = IF early THEN @ + 1 ELSE @,
                  !.unflushed = IF early \/ full THEN 0 ELSE @ + 1]

\* the recovery that succeeds without marking storage ready again
EnsureLogFileLeavesNotReady(w, env, io) ==
    IF ~w.sdCardReady /\ ~initializeSDCard(env.card, io.init)
    THEN [w |-> w, ok |-> FALSE, creates |-> 0]
    ELSE IF ~w.sdCardReady \/ ~w.logFile.open
    THEN The({ [w |-> [cr[1] EXCEPT
                          !.sdCardReady = IF ~cr[2] THEN FALSE ELSE @],
                ok |-> cr[2], creates |-> 1] :
               cr \in {createNewLogFile(w, env, io.create)} })
    ELSE [w |-> w, ok |-> TRUE, creates |-> 0]

\* writeCANMessage, lines 1325-1340: recover the card and the log file if
\* needed; [w, ok, creates], creates counting the createNewLogFile calls
EnsureLogFile(w, env, io) ==
    IF ~w.sdCardReady /\ ~initializeSDCard(env.card, io.init)
    THEN [w |-> w, ok |-> FALSE, creates |-> 0]
    ELSE IF ~w.sdCardReady \/ ~w.logFile.open
    THEN The({ [w |-> [cr[1] EXCEPT
                          !.sdCardReady = IF ~cr[2] THEN FALSE
                                          ELSE IF w.sdCardReady THEN @
                                          ELSE TRUE],
                ok |-> cr[2], creates |-> 1] :
               cr \in {createNewLogFile(w, env, io.create)} })
    ELSE [w |-> w, ok |-> TRUE, creates |-> 0]

\* writeCANMessage: [w, ok, writes, creates]; writes and creates count the
\* record-line write attempts and the createNewLogFile calls it made.
\* io = [init, create, line] are the faults injected into its calls.
writeCANMessage(w, env, frame, timestamp, micros, io) ==
    The({ IF ~st.ok
          THEN [w |-> st.w, ok |-> FALSE, writes |-> 0, creates |-> st.creates]
          ELSE The({ IF wr[2]
                     THEN [w |-> [FlushPolicy(wr[1]) EXCEPT
                                    !.lastWriteMillis = env.millis],
                           ok |-> TRUE, writes |-> 1, creates |-> st.creates]
                     ELSE [w |-> wr[1], ok |-> FALSE, writes |-> 1,
                           creates |-> st.creates] :
                     wr \in {The({ writeEncryptedLine(st.w, env.card, line,
                                                      io.line) :
                                   line \in {RecordLine(frame, timestamp, micros,
                                                        env.sensors,
                                                        env.zone)} })} }) :
          st \in {EnsureLogFile(w, env, io)} })


(* ------------------------------------------------------------------ *)
(* Time sources                                                         *)
(* ------------------------------------------------------------------ *)
\* getRTCTime: mktime of the civil time the RTC shows at millis() = ms
getRTCTime(ms, zone) == RtcEpoch + (ms \div 1000) - zone

\* the time stamp the loop gives the frame it received: [timestamp, micros]
FrameTime(rtc, base, ms, bootMs) ==
    IF rtc
    THEN [timestamp |-> base + (ms - bootMs) \div 1000,
          micros    |-> (ms * 1000) % 1000000]
    ELSE IF base # 0
    THEN [timestamp |-> base + (ms - bootMs) \div 1000,
          micros    |-> (ms - bootMs) * 1000]
    ELSE [timestamp |-> 0, micros |-> 0]

(* ------------------------------------------------------------------ *)
(* Status LED                                                           *)
(* ------------------------------------------------------------------ *)
\* updateSystemLED: [led, dataTransferActive] it leaves behind
updateSystemLED(w, rtc, can, active, count, ms, last) ==
    LET logReady == w.sdCardReady /\ w.logFile.open
        allReady == rtc /\ can /\ logReady
        elapsed  == ms - last
        timedOut == active /\ elapsed >= DATA_TIMEOUT_MS
        active2  == active /\ ~timedOut
    IN  IF active /\ elapsed < DATA_TIMEOUT_MS
        THEN [led |-> "MAGENTA", dataTransferActive |-> active]
        ELSE IF timedOut /\ allReady
        THEN [led |-> "ORANGE", dataTransferActive |-> FALSE]
        ELSE IF count > 0 /\ allReady /\ ~active2 /\ elapsed < 5000
        THEN [led |-> "ORANGE", dataTransferActive |-> active2]
        ELSE [led |-> IF allReady THEN "GREEN" ELSE "RED",
              dataTransferActive |-> active2]

(* ------------------------------------------------------------------ *)
(* Boot                                                                 *)
(* ------------------------------------------------------------------ *)
\* the situations a run boots in: RTC fitted or not, time zone in force
\* (GMT_OFFSET_SEC after an NTP sync over Wi-Fi, else UTC), the sensors,
\* the bus traffic, the random generator's output, and how many frames,
\* storage faults and /download requests the run sees
\* and whether a card is in the slot and the CAN driver starts; grain says
\* how finely storeLiveFrame and handleLiveData interleave (RaceStart)
BootScenarios ==
    << [rtcAvailable |-> TRUE, zone |-> 0, wifiConnected |-> FALSE,
        sensors |-> SensorsNone, busPattern |-> 0, stream |-> 1,
        frames |-> MaxFrames, faults |-> MaxFaults, downloads |-> 0, card |-> TRUE, can |-> TRUE, grain |-> "call"],
       [rtcAvailable |-> FALSE, zone |-> 0, wifiConnected |-> FALSE,
        sensors |-> SensorsAll, busPattern |-> 1, stream |-> 0,
        frames |-> MaxFrames, faults |-> MaxFaults, downloads |-> 0, card |-> TRUE, can |-> TRUE, grain |-> "call"],
       [rtcAvailable |-> TRUE, zone |-> GMT_OFFSET_SEC, wifiConnected |-> TRUE,
        sensors |-> [SensorsAll EXCEPT !.gpsHasFix = FALSE],
        busPattern |-> 0, stream |-> 0, frames |-> MaxFrames, faults |-> MaxFaults, downloads |-> 0,
        card |-> FALSE, can |-> TRUE, grain |-> "call"],
       [rtcAvailable |-> TRUE, zone |-> 0, wifiConnected |-> FALSE,
        sensors |-> SensorsNone, busPattern |-> 1, stream |-> 1,
        frames |-> MaxFrames, faults |-> MaxFaults, downloads |-> 0, card |-> TRUE, can |-> FALSE, grain |-> "call"] >>

\* the writer's globals before setup() runs, on a card with no files
InitWriter ==
    [ sdCardReady |-> FALSE, logFile |-> NoFile, currentLogFileName |-> <<>>,
      currentFileSize |-> 0, currentFileNonce |-> <<0, 0>>,
      currentCipherState |-> <<0, 0>>, flushCounter |-> 0,
      earlyFlushCount |-> 0, unflushed |-> 0, randomDraws |-> 0,
      disk |-> [n \in {} |-> <<>>], text |-> [n \in {} |-> <<>>], dirExists |-> FALSE, cipherSteps |-> 0,
      createdNames |-> <<>>, byteFailures |-> 0, createdNonces |-> <<>>,
      lastClose |-> NoClose, lastWriteMillis |-> 0 - 1, submitted |-> <<>> ]

\* setup(), storage step: initializeSDCard, then createNewLogFile, with the
\* baseTime read so far (the RTC's, or 0 without RTC) at millis() = 0
SetupWriter(sc, card) ==
    LET base0 == IF sc.rtcAvailable THEN getRTCTime(0, sc.zone) ELSE 0
        env   == [card |-> card, baseTime |-> base0, zone |-> sc.zone,
                  millis |-> 0, bootMillis |-> 0, stream |-> sc.stream,
                  sensors |-> sc.sensors]
        ready == initializeSDCard(card, "none")
        cr    == createNewLogFile([InitWriter EXCEPT !.sdCardReady = ready],
                                  env, "none")
    IN  IF ready
        THEN [cr[1] EXCEPT !.sdCardReady = cr[2]]
        ELSE InitWriter

\* setup(), last step: the final baseTime and bootMillis
SetupBaseTime(sc) ==
    IF sc.rtcAvailable THEN getRTCTime(SetupMillis, sc.zone) ELSE CompileTime

SetupBootMillis(sc) == IF sc.rtcAvailable THEN SetupMillis ELSE 0

\* setup(), the LED it leaves: GREEN only with everything ready, Wi-Fi too
SetupLed(sc, w, can) ==
    IF sc.rtcAvailable /\ can /\ w.sdCardReady /\ w.logFile.open
       /\ sc.wifiConnected
    THEN "GREEN" ELSE "RED"

NoRx == [frame |-> RxFrame(0, 0), timestamp |-> 0, micros |-> 0]

NoStats ==
    [ n |-> 0, startReady |-> FALSE, stores |-> 0, writeCalls |-> 0,
      writes |-> 0, creates |-> 0, recovered |-> "none", retried |-> "none",
      byteFailed |-> FALSE, atReturn |-> [ok |-> TRUE, open |-> FALSE,
                                           ready |-> FALSE] ]

NoResponse == [sent |-> FALSE]

NoDownload ==
    [ served |-> 0, status |-> 0, closed |-> FALSE, reopened |-> FALSE,
      sizeBefore |-> 0, sizeAfter |-> 0, counterAfter |-> 0,
      inFlight |-> FALSE ]

\* Positions of the producer (storeLiveFrame) and of the consumer
\* (handleLiveData) in a run.  With grain "call" each runs as one step, as in
\* the firmware, whose loop task calls both; with grain "field" each access
\* to a slot field or to the counter is a step of its own.
\* prod.at, cons.at: 0 when idle, else the index of the next access.
RaceStart ==
    [ prod |-> [at |-> 0, nextSeq |-> 0],
      cons |-> [at |-> 0, seq |-> 0, added |-> 0, limit |-> 0, latest |-> 0,
                since |-> 0, requested |-> 0, entry |-> [seq |-> 0],
                frames |-> <<>>] ]

\* the state setup() leaves for loop()
SetupEncoded(sc, card, can) ==
    /\ scenario = sc
    /\ canInitialized = can
    /\ cardPresent = card
    /\ faults = 0
    /\ millis = SetupMillis
    /\ bootMillis = SetupBootMillis(sc)
    /\ baseTime = SetupBaseTime(sc)
    /\ lastSDCardCheck = 0
    /\ lastCANReinitAttempt = 0
    /\ writer = SetupWriter(sc, card)
    /\ messageCount = 0
    /\ liveFrameBuffer = [i \in {} |-> EmptyLiveFrame]
    /\ liveFrameCounter = 0
    /\ dataTransferActive = FALSE
    /\ lastDataReceivedTime = 0
    /\ led = SetupLed(sc, SetupWriter(sc, card), can)
    /\ pc = "idle"
    /\ rx = NoRx
    /\ frameStats = NoStats
    /\ liveResponse = NoResponse
    /\ download = NoDownload
    /\ race = RaceStart

\* the encrypted logger is the sketch on the board
InitWith(sc, card, can) ==
    /\ SetupEncoded(sc, card, can)
    /\ csv = NotFlashed
    /\ lastry = NotFlashed
    /\ unit = NotFlashed

Init ==
    \E i \in 1..Len(BootScenarios) :
        InitWith(BootScenarios[i], BootScenarios[i].card, BootScenarios[i].can)

(* ------------------------------------------------------------------ *)
(* The loop: one received frame                                         *)
(* ------------------------------------------------------------------ *)
\* what the storage calls of the running handler see
Env ==
    [ card |-> cardPresent, baseTime |-> baseTime, zone |-> scenario.zone,
      millis |-> millis, bootMillis |-> bootMillis,
      stream |-> scenario.stream, sensors |-> scenario.sensors ]

NoFault == [init |-> "none", create |-> "none", line |-> "none"]

\* one writeCANMessage call meets at most one fault
WriteFaults ==
    { NoFault, [NoFault EXCEPT !.init = "fail"] } \cup
    { [NoFault EXCEPT !.create = f] : f \in CreateFaults } \cup
    { [NoFault EXCEPT !.line = f] : f \in LineFaults }

\* a fault can be injected while the card is present and the budget lasts
MayFault == cardPresent /\ faults < scenario.faults

\* the faults a createNewLogFile call can meet now
CreateFaultsNow(w) ==
    IF MayFault
    THEN {f \in CreateFaults : f = "mkdir" => ~w.dirExists}
    ELSE {"none"}

\* the faults a writeCANMessage call can meet now
WriteFaultsNow(w) ==
    IF MayFault
    THEN {io \in WriteFaults :
            /\ io.init # "none" => ~w.sdCardReady
            /\ io.create # "none" =>
                   /\ ~w.sdCardReady \/ ~w.logFile.open
                   /\ io.create = "mkdir" => ~w.dirExists}
    ELSE {NoFault}

Injected(io) == IF io = NoFault THEN 0 ELSE 1

\* the handlers' reports are those of the handler that ran last
ClearWebReports ==
    /\ liveResponse' = NoResponse
    /\ download' = [NoDownload EXCEPT !.served = download.served]

\* and so is the record of what the last frame's handling did
ClearReports ==
    /\ ClearWebReports
    /\ frameStats' = NoStats
    /\ rx' = NoRx

\* a loop that creates the log file for a frame whenever none is open,
\* storage ready or not
RxBeginCreatesUnready ==
    /\ pc = "idle"
    /\ canInitialized
    /\ messageCount < scenario.frames
    /\ \E fault \in CreateFaultsNow(writer) :
         /\ fault # "none" => writer.sdCardReady /\ ~writer.logFile.open
         /\ \E cr \in {IF ~writer.logFile.open
                       THEN createNewLogFile(writer, Env, fault)
                       ELSE <<writer, TRUE>>},
               at \in {FrameTime(scenario.rtcAvailable, baseTime, millis,
                                 bootMillis)} :
              \E ring \in {storeLiveFrame(liveFrameBuffer, liveFrameCounter,
                               RxFrame(scenario.busPattern, messageCount + 1),
                               at.timestamp, at.micros,
                               FormatTime(at.timestamp, scenario.zone))} :
                /\ faults' = faults + (IF fault = "none" THEN 0 ELSE 1)
                /\ writer' = IF cr[1].sdCardReady
                             THEN [cr[1] EXCEPT !.submitted =
                                      Append(@, [n |-> messageCount + 1,
                                                 timestamp |-> at.timestamp,
                                                 micros |-> at.micros])]
                             ELSE cr[1]
                /\ liveFrameBuffer' = ring.buffer
                /\ liveFrameCounter' = ring.counter
                /\ rx' = [frame |-> RxFrame(scenario.busPattern,
                                            messageCount + 1),
                          timestamp |-> at.timestamp, micros |-> at.micros]
                /\ frameStats' =
                       [NoStats EXCEPT
                          !.n = messageCount + 1,
                          !.startReady = cr[1].sdCardReady,
                          !.stores = 1,
                          !.creates = IF writer.sdCardReady
                                         /\ ~writer.logFile.open
                                      THEN 1 ELSE 0]
                /\ pc' = IF cr[1].sdCardReady THEN "write" ELSE "idle"
    /\ messageCount' = messageCount + 1
    /\ lastDataReceivedTime' = millis
    /\ dataTransferActive' = TRUE
    /\ led' = "MAGENTA"
    /\ ClearWebReports
    /\ UNCHANGED <<scenario, csv, lastry, unit, canInitialized, cardPresent, millis, bootMillis,
                   baseTime, lastSDCardCheck, lastCANReinitAttempt, race>>

\* loop, lines 2954-3056 and the test of 3059: count the frame, create the
\* log file if storage is ready and none is open, stamp the frame and store
\* it in the ring
RxBegin ==
    /\ pc = "idle"
    /\ canInitialized
    /\ messageCount < scenario.frames
    /\ \E fault \in CreateFaultsNow(writer) :
         /\ fault # "none" => writer.sdCardReady /\ ~writer.logFile.open
         /\ \E cr \in {IF writer.sdCardReady /\ ~writer.logFile.open
                       THEN createNewLogFile(writer, Env, fault)
                       ELSE <<writer, TRUE>>},
               at \in {FrameTime(scenario.rtcAvailable, baseTime, millis,
                                 bootMillis)} :
              \E ring \in {storeLiveFrame(liveFrameBuffer, liveFrameCounter,
                               RxFrame(scenario.busPattern, messageCount + 1),
                               at.timestamp, at.micros,
                               FormatTime(at.timestamp, scenario.zone))} :
                /\ faults' = faults + (IF fault = "none" THEN 0 ELSE 1)
                /\ writer' = IF cr[1].sdCardReady
                             THEN [cr[1] EXCEPT !.submitted =
                                      Append(@, [n |-> messageCount + 1,
                                                 timestamp |-> at.timestamp,
                                                 micros |-> at.micros])]
                             ELSE cr[1]
                /\ liveFrameBuffer' = ring.buffer
                /\ liveFrameCounter' = ring.counter
                /\ rx' = [frame |-> RxFrame(scenario.busPattern,
                                            messageCount + 1),
                          timestamp |-> at.timestamp, micros |-> at.micros]
                /\ frameStats' =
                       [NoStats EXCEPT
                          !.n = messageCount + 1,
                          !.startReady = cr[1].sdCardReady,
                          !.stores = 1,
                          !.creates = IF writer.sdCardReady
                                         /\ ~writer.logFile.open
                                      THEN 1 ELSE 0]
                /\ pc' = IF cr[1].sdCardReady THEN "write" ELSE "idle"
    /\ messageCount' = messageCount + 1
    /\ lastDataReceivedTime' = millis
    /\ dataTransferActive' = TRUE
    /\ led' = "MAGENTA"
    /\ ClearWebReports
    /\ UNCHANGED <<scenario, csv, lastry, unit, canInitialized, cardPresent, millis, bootMillis,
                   baseTime, lastSDCardCheck, lastCANReinitAttempt, race>>

\* loop, lines 3059-3062 and 3080-3083: the first writeCANMessage
RxWrite ==
    /\ pc = "write"
    /\ \E io \in WriteFaultsNow(writer) :
       \E r \in {writeCANMessage(writer, Env, rx.frame, rx.timestamp,
                                 rx.micros, io)} :
         /\ faults' = faults + Injected(io)
         /\ writer' = r.w
         /\ frameStats' =
                [frameStats EXCEPT
                   !.writeCalls = @ + 1,
                   !.writes = @ + r.writes,
                   !.creates = @ + r.creates,
                   !.byteFailed = (r.w.byteFailures > writer.byteFailures),
                   !.atReturn = [ok |-> r.ok, open |-> r.w.logFile.open,
                                 ready |-> r.w.sdCardReady]]
         /\ pc' = IF r.ok THEN "idle" ELSE "recover"
    /\ led' = "MAGENTA"
    /\ UNCHANGED <<scenario, csv, lastry, unit, canInitialized, cardPresent, millis, bootMillis,
                   baseTime, lastSDCardCheck, lastCANReinitAttempt,
                   messageCount, liveFrameBuffer, liveFrameCounter,
                   dataTransferActive, lastDataReceivedTime, rx, liveResponse,
                   download, race>>

\* loop, lines 3063-3069: createNewLogFile after the failed write
RxRecover ==
    /\ pc = "recover"
    /\ \E fault \in CreateFaultsNow(writer) :
       \E cr \in {createNewLogFile(writer, Env, fault)} :
       \E w1 \in {IF cr[2] THEN cr[1] ELSE [cr[1] EXCEPT !.sdCardReady = FALSE]} :
       \E ul \in {updateSystemLED(w1, scenario.rtcAvailable, canInitialized,
                                  dataTransferActive, messageCount, millis,
                                  lastDataReceivedTime)} :
         /\ faults' = faults + (IF fault = "none" THEN 0 ELSE 1)
         /\ writer' = w1
         /\ frameStats' =
                [frameStats EXCEPT
                   !.creates = @ + 1,
                   !.recovered = IF cr[2] THEN "ok" ELSE "failed"]
         /\ led' = IF cr[2] THEN led ELSE ul.led
         /\ dataTransferActive' =
                IF cr[2] THEN dataTransferActive ELSE ul.dataTransferActive
         /\ pc' = IF cr[2] THEN "retry" ELSE "idle"
    /\ UNCHANGED <<scenario, csv, lastry, unit, canInitialized, cardPresent, millis, bootMillis,
                   baseTime, lastSDCardCheck, lastCANReinitAttempt,
                   messageCount, liveFrameBuffer, liveFrameCounter,
                   lastDataReceivedTime, rx, liveResponse, download, race>>

\* loop, lines 3070-3078: the second writeCANMessage, of the same record
RxRetry ==
    /\ pc = "retry"
    /\ \E io \in WriteFaultsNow(writer) :
       \E r \in {writeCANMessage(writer, Env, rx.frame, rx.timestamp,
                                 rx.micros, io)} :
       \E w1 \in {IF r.ok THEN r.w ELSE [r.w EXCEPT !.sdCardReady = FALSE]} :
       \E ul \in {updateSystemLED(w1, scenario.rtcAvailable, canInitialized,
                                  dataTransferActive, messageCount, millis,
                                  lastDataReceivedTime)} :
         /\ faults' = faults + Injected(io)
         /\ writer' = w1
         /\ frameStats' =
                [frameStats EXCEPT
                   !.writeCalls = @ + 1,
                   !.writes = @ + r.writes,
                   !.creates = @ + r.creates,
                   !.retried = IF r.ok THEN "ok" ELSE "failed",
                   !.byteFailed = (r.w.byteFailures > writer.byteFailures),
                   !.atReturn = [ok |-> r.ok, open |-> r.w.logFile.open,
                                 ready |-> r.w.sdCardReady]]
         /\ led' = IF r.ok THEN "MAGENTA" ELSE ul.led
         /\ dataTransferActive' =
                IF r.ok THEN dataTransferActive ELSE ul.dataTransferActive
    /\ pc' = "idle"
    /\ UNCHANGED <<scenario, csv, lastry, unit, canInitialized, cardPresent, millis, bootMillis,
                   baseTime, lastSDCardCheck, lastCANReinitAttempt,
                   messageCount, liveFrameBuffer, liveFrameCounter,
                   lastDataReceivedTime, rx, liveResponse, download, race>>

(* ------------------------------------------------------------------ *)
(* The loop: periodic checks                                            *)
(* ------------------------------------------------------------------ *)
\* the conditions of the loop's timed branches
TimeoutDue ==
    dataTransferActive /\ millis - lastDataReceivedTime >= DATA_TIMEOUT_MS

SDCheckDue == millis - lastSDCardCheck > SD_CHECK_INTERVAL_MS

CanReinitDue == ~canInitialized /\ millis - lastCANReinitAttempt >= 5000

\* loop, lines 3109-3133: the data transfer timeout and the idle LED
LoopTimeoutCheck ==
    /\ pc = "idle"
    /\ LET ul == updateSystemLED(writer, scenario.rtcAvailable, canInitialized,
                                 FALSE, messageCount, millis,
                                 lastDataReceivedTime)
       IN  IF canInitialized
           THEN /\ TimeoutDue \/ (~dataTransferActive /\ messageCount = 0)
                /\ dataTransferActive' = FALSE
                /\ led' = ul.led
           ELSE /\ dataTransferActive' = FALSE
                /\ led' = ul.led
    /\ ClearReports
    /\ UNCHANGED <<scenario, csv, lastry, unit, canInitialized, cardPresent, faults, millis,
                   bootMillis, baseTime, lastSDCardCheck, lastCANReinitAttempt,
                   writer, messageCount, liveFrameBuffer,
                   liveFrameCounter, lastDataReceivedTime, pc, race>>

\* loop, lines 3181-3194: retry of initCAN every 5 seconds
LoopCanReinit ==
    /\ pc = "idle"
    /\ CanReinitDue
    /\ \E ok \in BOOLEAN :
         LET ul == updateSystemLED(writer, scenario.rtcAvailable, ok,
                                   dataTransferActive, messageCount, millis,
                                   lastDataReceivedTime)
         IN  /\ canInitialized' = ok
             /\ led' = ul.led
             /\ dataTransferActive' = ul.dataTransferActive
    /\ lastCANReinitAttempt' = millis
    /\ ClearReports
    /\ UNCHANGED <<scenario, csv, lastry, unit, cardPresent, faults, millis, bootMillis, baseTime,
                   lastSDCardCheck, writer, messageCount,
                   liveFrameBuffer, liveFrameCounter, lastDataReceivedTime, pc,
                   race>>

\* autoDetectAndInitSDCard that never finds the card
autoDetectAndInitSDCardNever(card, fault, rtc, zone, base, bootMs, ms) ==
    [ok |-> FALSE, baseTime |-> base, bootMillis |-> bootMs]

\* autoDetectAndInitSDCard, called with sdCardReady false:
\* [ok, baseTime, bootMillis]
autoDetectAndInitSDCard(card, fault, rtc, zone, base, bootMs, ms) ==
    IF ~card \/ fault # "none"
    THEN [ok |-> FALSE, baseTime |-> base, bootMillis |-> bootMs]
    ELSE IF rtc
    THEN [ok |-> TRUE, baseTime |-> getRTCTime(ms, zone), bootMillis |-> ms]
    ELSE IF base = 0
    THEN [ok |-> TRUE, baseTime |-> CompileTime, bootMillis |-> ms]
    ELSE [ok |-> TRUE, baseTime |-> base, bootMillis |-> bootMs]

\* loop, lines 3196-3225: the card check every 2 seconds.  SD.cardType()
\* reports the type found when the card was mounted, so with the card gone
\* the check may see CARD_NONE or still see a card.
LoopSDCheck ==
    /\ pc = "idle"
    /\ SDCheckDue
    /\ \E fault \in (IF MayFault /\ ~writer.sdCardReady
                     THEN {"none", "fail"} ELSE {"none"}),
          seesCard \in (IF cardPresent \/ ~writer.sdCardReady
                        THEN {TRUE} ELSE BOOLEAN) :
         LET ad == autoDetectAndInitSDCard(cardPresent, fault,
                       scenario.rtcAvailable, scenario.zone, baseTime,
                       bootMillis, millis)
             w1 == IF ~writer.sdCardReady
                   THEN [writer EXCEPT !.sdCardReady = ad.ok]
                   ELSE IF seesCard THEN writer
                   ELSE [closeCurrentFile(writer) EXCEPT !.sdCardReady = FALSE]
             changed == w1.sdCardReady # writer.sdCardReady
             ul == updateSystemLED(w1, scenario.rtcAvailable, canInitialized,
                                   dataTransferActive, messageCount, millis,
                                   lastDataReceivedTime)
         IN  /\ faults' = faults + (IF fault = "none" THEN 0 ELSE 1)
             /\ writer' = w1
             /\ baseTime' = IF writer.sdCardReady THEN baseTime ELSE ad.baseTime
             /\ bootMillis' =
                    IF writer.sdCardReady THEN bootMillis ELSE ad.bootMillis
             /\ led' = IF changed THEN ul.led ELSE led
             /\ dataTransferActive' =
                    IF changed THEN ul.dataTransferActive ELSE dataTransferActive
    /\ lastSDCardCheck' = millis
    /\ ClearReports
    /\ UNCHANGED <<scenario, csv, lastry, unit, canInitialized, cardPresent, millis,
                   lastCANReinitAttempt, messageCount,
                   liveFrameBuffer, liveFrameCounter, lastDataReceivedTime, pc,
                   race>>

(* ------------------------------------------------------------------ *)
(* Surroundings: the clock and the card slot                            *)
(* ------------------------------------------------------------------ *)
\* time passes; the loop runs far more often than the clock steps, so a
\* timed branch that is due has run before the next step
Tick ==
    /\ pc = "idle"
    /\ millis + TickMs <= SetupMillis + MaxTicks * TickMs
    /\ ~TimeoutDue /\ ~SDCheckDue /\ ~CanReinitDue
    /\ millis' = millis + TickMs
    /\ ClearReports
    /\ UNCHANGED <<scenario, csv, lastry, unit, canInitialized, cardPresent, faults, bootMillis,
                   baseTime, lastSDCardCheck, lastCANReinitAttempt,
                   writer, messageCount, liveFrameBuffer, liveFrameCounter,
                   dataTransferActive, lastDataReceivedTime, led, pc, race>>

\* the card is pulled out of the slot (counted as a storage fault)
RemoveCard ==
    /\ pc = "idle"
    /\ MayFault
    /\ cardPresent' = FALSE
    /\ faults' = faults + 1
    /\ ClearReports
    /\ UNCHANGED <<scenario, csv, lastry, unit, canInitialized, millis, bootMillis,
                   baseTime, lastSDCardCheck, lastCANReinitAttempt, writer,
                   messageCount, liveFrameBuffer, liveFrameCounter,
                   dataTransferActive, lastDataReceivedTime, led, pc, race>>

\* the same card is pushed back in
InsertCard ==
    /\ pc = "idle"
    /\ ~cardPresent
    /\ cardPresent' = TRUE
    /\ ClearReports
    /\ UNCHANGED <<scenario, csv, lastry, unit, canInitialized, faults, millis, bootMillis,
                   baseTime, lastSDCardCheck, lastCANReinitAttempt, writer,
                   messageCount, liveFrameBuffer, liveFrameCounter,
                   dataTransferActive, lastDataReceivedTime, led, pc, race>>

(* ------------------------------------------------------------------ *)
(* Web handlers (run from server.handleClient() between frames)         *)
(* ------------------------------------------------------------------ *)
\* handleFileDownload for the file called fileName: [w, report].
\* locked: the card's file system refuses to open for reading a file that is
\* open for writing; fault: "open" makes the reopen fail.
handleFileDownload(w, card, fileName, locked, fault) ==
    LET report(st, cl, re, w2) ==
            [ status |-> st, closed |-> cl, reopened |-> re,
              sizeBefore |-> IF fileName \in DOMAIN w.disk
                             THEN Len(w.disk[fileName]) ELSE 0,
              sizeAfter |-> IF fileName \in DOMAIN w2.disk
                            THEN Len(w2.disk[fileName]) ELSE 0,
              counterAfter |-> w2.currentFileSize ]
        isActiveFile == Len(w.currentLogFileName) > 0
                        /\ fileName = w.currentLogFileName
        exists == card /\ fileName \in DOMAIN w.disk
        w1     == IF isActiveFile /\ w.logFile.open
                  THEN [w EXCEPT !.unflushed = 0] ELSE w
        first  == exists /\ ~(isActiveFile /\ w.logFile.open /\ locked)
        reopenAfterDownload == ~first /\ isActiveFile /\ w.logFile.open
        w2     == IF reopenAfterDownload
                  THEN [w1 EXCEPT !.logFile = NoFile] ELSE w1
        file   == IF reopenAfterDownload THEN exists ELSE first
        w3     == IF card /\ fault # "open"
                  THEN [w2 EXCEPT
                          !.disk = OpenForWrite(@, w.currentLogFileName),
                          !.text = OpenForWrite(@, w.currentLogFileName),
                          !.logFile = [open |-> TRUE,
                                       name |-> w.currentLogFileName],
                          !.currentFileSize = 0]
                  ELSE [w2 EXCEPT !.sdCardReady = FALSE]
    IN  IF ~w.sdCardReady THEN [w |-> w, report |-> report(503, FALSE, FALSE, w)]
        ELSE IF Len(fileName) = 0
        THEN [w |-> w, report |-> report(400, FALSE, FALSE, w)]
        ELSE IF ~file
        THEN [w |-> w2, report |-> report(404, reopenAfterDownload, FALSE, w2)]
        ELSE IF ~reopenAfterDownload
        THEN [w |-> w2, report |-> report(200, FALSE, FALSE, w2)]
        ELSE [w |-> w3, report |-> report(200, TRUE, w3.logFile.open, w3)]

\* a /download request is served
HandleFileDownload ==
    /\ pc = "idle"
    /\ download.served < scenario.downloads
    /\ \E fileName \in (DOMAIN writer.disk) \cup {<<>>},
          locked \in BOOLEAN,
          fault \in (IF MayFault THEN {"none", "open"} ELSE {"none"}) :
       \E d \in {handleFileDownload(writer, cardPresent, fileName, locked,
                                    fault)} :
         /\ fault = "open" => d.report.closed /\ d.report.status = 200
                              /\ ~d.report.reopened
         /\ locked => (fileName = writer.currentLogFileName
                       /\ writer.logFile.open)
         /\ faults' = faults + (IF fault = "none" THEN 0 ELSE 1)
         /\ writer' = d.w
         /\ download' = [ served |-> download.served + 1,
                          status |-> d.report.status,
                          closed |-> d.report.closed,
                          reopened |-> d.report.reopened,
                          sizeBefore |-> d.report.sizeBefore,
                          sizeAfter |-> d.report.sizeAfter,
                          counterAfter |-> d.report.counterAfter,
                          inFlight |-> FALSE ]
    /\ liveResponse' = NoResponse
    /\ frameStats' = NoStats
    /\ rx' = NoRx
    /\ UNCHANGED <<scenario, csv, lastry, unit, canInitialized, cardPresent, millis, bootMillis,
                   baseTime, lastSDCardCheck, lastCANReinitAttempt,
                   messageCount, liveFrameBuffer, liveFrameCounter,
                   dataTransferActive, lastDataReceivedTime, led, pc, race>>

\* handleFileDownload, lines 2277-2374: up to the end of the transfer.
\* [w, status, reopenAfterDownload]; with reopenAfterDownload the active file
\* was closed for the read and is still to be reopened.
handleFileDownloadTransfer(w, card, fileName, locked) ==
    LET isActiveFile == Len(w.currentLogFileName) > 0
                        /\ fileName = w.currentLogFileName
        exists == card /\ fileName \in DOMAIN w.disk
        w1     == IF isActiveFile /\ w.logFile.open
                  THEN [w EXCEPT !.unflushed = 0] ELSE w
        first  == exists /\ ~(isActiveFile /\ w.logFile.open /\ locked)
        retry  == ~first /\ isActiveFile /\ w.logFile.open
        w2     == IF retry THEN [w1 EXCEPT !.logFile = NoFile] ELSE w1
        file   == IF retry THEN exists ELSE first
    IN  IF ~w.sdCardReady
        THEN [w |-> w, status |-> 503, reopenAfterDownload |-> FALSE]
        ELSE IF Len(fileName) = 0
        THEN [w |-> w, status |-> 400, reopenAfterDownload |-> FALSE]
        ELSE IF ~file
        THEN [w |-> w2, status |-> 404, reopenAfterDownload |-> FALSE]
        ELSE [w |-> w2, status |-> 200, reopenAfterDownload |-> retry]

\* handleFileDownload, lines 2376-2390: the reopen of the active file
handleFileDownloadReopen(w, card, fault) ==
    IF card /\ fault # "open"
    THEN [w EXCEPT !.disk = OpenForWrite(@, w.currentLogFileName),
                   !.text = OpenForWrite(@, w.currentLogFileName),
                   !.logFile = [open |-> TRUE, name |-> w.currentLogFileName],
                   !.currentFileSize = 0]
    ELSE [w EXCEPT !.sdCardReady = FALSE]

\* the handler returning to the loop with the reopen still to come
AfterTransferBackToLoop(reopenAfterDownload) == "idle"

\* where the loop task stands once the transfer is over: still inside the
\* handler, before the reopen, when the active file was closed for the read
AfterTransfer(reopenAfterDownload) ==
    IF reopenAfterDownload THEN "download" ELSE "idle"

\* a /download request is served up to the end of the transfer
DownloadTransfer ==
    /\ pc = "idle"
    /\ download.served < scenario.downloads
    /\ \E fileName \in (DOMAIN writer.disk) \cup {<<>>}, locked \in BOOLEAN :
       \E d \in {handleFileDownloadTransfer(writer, cardPresent, fileName,
                                            locked)} :
         /\ locked => (fileName = writer.currentLogFileName
                       /\ writer.logFile.open)
         /\ writer' = d.w
         /\ download' = [NoDownload EXCEPT
                           !.served = download.served + 1,
                           !.status = d.status,
                           !.closed = writer.logFile.open /\ ~d.w.logFile.open,
                           !.sizeBefore = IF fileName \in DOMAIN writer.disk
                                          THEN Len(writer.disk[fileName])
                                          ELSE 0,
                           !.inFlight = d.reopenAfterDownload]
         /\ pc' = AfterTransfer(d.reopenAfterDownload)
    /\ liveResponse' = NoResponse
    /\ frameStats' = NoStats
    /\ rx' = NoRx
    /\ UNCHANGED <<scenario, csv, lastry, unit, canInitialized, cardPresent, faults, millis,
                   bootMillis, baseTime, lastSDCardCheck, lastCANReinitAttempt,
                   messageCount, liveFrameBuffer, liveFrameCounter,
                   dataTransferActive, lastDataReceivedTime, led, race>>

\* the handler reopens the active file and returns to the loop
DownloadReopen ==
    /\ pc = "download"
    /\ \E fault \in (IF MayFault THEN {"none", "open"} ELSE {"none"}) :
       \E w1 \in {handleFileDownloadReopen(writer, cardPresent, fault)} :
         /\ faults' = faults + (IF fault = "none" THEN 0 ELSE 1)
         /\ writer' = w1
         /\ download' = [download EXCEPT
                           !.inFlight = FALSE,
                           !.reopened = w1.logFile.open,
                           !.sizeAfter =
                               Len(w1.disk[writer.currentLogFileName]),
                           !.counterAfter = w1.currentFileSize]
    /\ pc' = "idle"
    /\ UNCHANGED <<scenario, csv, lastry, unit, canInitialized, cardPresent, millis, bootMillis,
                   baseTime, lastSDCardCheck, lastCANReinitAttempt,
                   messageCount, liveFrameBuffer, liveFrameCounter,
                   dataTransferActive, lastDataReceivedTime, led, rx,
                   frameStats, liveResponse, race>>

\* the "since" and "limit" arguments a /live request may carry when the
\* counter stands at n: negative, around the oldest retained frame, around n
SinceArgs(n) ==
    {0 - 1, n - LIVE_BUFFER_SIZE - 1, n - LIVE_BUFFER_SIZE, n - 2, n - 1, n,
     n + 1}

LimitArgs == {0, 1, LIVE_BUFFER_SIZE, LIVE_BUFFER_SIZE + 50}

\* a /live request is served (its response is taken off before the next one)
HandleLiveData ==
    /\ pc = "idle"
    /\ ~liveResponse.sent
    /\ \E hasSince \in BOOLEAN, hasLimit \in BOOLEAN :
       \E sinceArg \in (IF hasSince THEN SinceArgs(liveFrameCounter) ELSE {0}),
          requested \in (IF hasLimit THEN LimitArgs ELSE {0}) :
       \E r \in {handleLiveData(liveFrameBuffer, liveFrameCounter, hasSince,
                                sinceArg, hasLimit, requested)} :
         liveResponse' =
             [ sent |-> TRUE, hasSince |-> hasSince, sinceArg |-> sinceArg,
               hasLimit |-> hasLimit, requested |-> requested,
               latest |-> r.latest, since |-> r.since, limit |-> r.limit,
               frames |-> r.frames ]
    /\ download' = [NoDownload EXCEPT !.served = download.served]
    /\ frameStats' = NoStats
    /\ rx' = NoRx
    /\ UNCHANGED <<scenario, csv, lastry, unit, canInitialized, cardPresent, faults, millis,
                   bootMillis, baseTime, lastSDCardCheck, lastCANReinitAttempt,
                   writer, messageCount, liveFrameBuffer, liveFrameCounter,
                   dataTransferActive, lastDataReceivedTime, led, pc, race>>

(* ------------------------------------------------------------------ *)
(* Specifications                                                       *)
(* ------------------------------------------------------------------ *)

\* ---------------------------------------------------------------------------
\* storeLiveFrame and handleLiveData at field granularity
\* ---------------------------------------------------------------------------

\* the slot fields in the order storeLiveFrame writes them (lines 1452-1466)
StoreOrder ==
    <<"seq", "unixTime", "micros", "timeText", "identifier", "extended",
      "rtr", "dlc", "data">>

\* the entry fields in the order handleLiveData reads them (lines 2598-2628)
EntryOrder ==
    <<"seq", "time", "unix", "micros", "id", "extended", "rtr", "dlc", "data">>

\* loop, lines 2954-3008, and storeLiveFrame, line 1449: the frame is counted
\* and stamped, nextSeq is read (storage not ready: nothing is created)
StoreBegin ==
    /\ scenario.grain = "field"
    /\ pc = "idle"
    /\ race.prod.at = 0
    /\ canInitialized
    /\ ~writer.sdCardReady
    /\ messageCount < scenario.frames
    /\ \E at \in {FrameTime(scenario.rtcAvailable, baseTime, millis,
                            bootMillis)} :
         rx' = [frame |-> RxFrame(scenario.busPattern, messageCount + 1),
                timestamp |-> at.timestamp, micros |-> at.micros]
    /\ race' = [race EXCEPT !.prod = [at |-> 1,
                                      nextSeq |-> liveFrameCounter + 1]]
    /\ messageCount' = messageCount + 1
    /\ lastDataReceivedTime' = millis
    /\ dataTransferActive' = TRUE
    /\ led' = "MAGENTA"
    /\ frameStats' = [NoStats EXCEPT !.n = messageCount + 1]
    /\ ClearWebReports
    /\ UNCHANGED <<scenario, csv, lastry, unit, canInitialized, cardPresent, faults, millis,
                   bootMillis, baseTime, lastSDCardCheck, lastCANReinitAttempt,
                   writer, liveFrameBuffer, liveFrameCounter, pc>>

\* storeLiveFrame, lines 1452-1468: one slot field is written, or, after the
\* last one, the counter
StoreStep ==
    /\ scenario.grain = "field"
    /\ race.prod.at >= 1
    /\ IF race.prod.at <= Len(StoreOrder)
       THEN /\ liveFrameBuffer' =
                   PutSlot(liveFrameBuffer, SlotIndex(race.prod.nextSeq),
                       [Slot(liveFrameBuffer, SlotIndex(race.prod.nextSeq))
                          EXCEPT ![StoreOrder[race.prod.at]] =
                             LiveFrameOf(race.prod.nextSeq, rx.frame,
                                 rx.timestamp, rx.micros,
                                 FormatTime(rx.timestamp, scenario.zone))
                                   [StoreOrder[race.prod.at]]])
            /\ race' = [race EXCEPT !.prod.at = @ + 1]
            /\ UNCHANGED <<liveFrameCounter, frameStats>>
       ELSE /\ liveFrameCounter' = race.prod.nextSeq
            /\ race' = [race EXCEPT !.prod = RaceStart.prod]
            /\ frameStats' = [frameStats EXCEPT !.stores = @ + 1]
            /\ UNCHANGED liveFrameBuffer
    /\ UNCHANGED <<scenario, csv, lastry, unit, canInitialized, cardPresent, faults, millis,
                   bootMillis, baseTime, lastSDCardCheck, lastCANReinitAttempt,
                   writer, messageCount, dataTransferActive,
                   lastDataReceivedTime, led, pc, rx, liveResponse, download>>

\* handleLiveData, lines 2550-2581: the arguments are parsed, the counter is
\* read and the first sequence number to visit is computed
QueryBegin ==
    /\ scenario.grain = "field"
    /\ race.cons.at = 0
    /\ ~liveResponse.sent
    /\ liveFrameCounter >= RaceFrom
    /\ \E requested \in 1..RaceLimit :
         race' = [race EXCEPT !.cons =
                    [ at |-> 1, seq |-> StartSeq(liveFrameCounter, 0),
                      added |-> 0, limit |-> ParseLimit(TRUE, requested),
                      latest |-> liveFrameCounter, since |-> 0,
                      requested |-> requested, entry |-> [seq |-> 0],
                      frames |-> <<>> ]]
    /\ UNCHANGED <<scenario, csv, lastry, unit, canInitialized, cardPresent, faults, millis,
                   bootMillis, baseTime, lastSDCardCheck, lastCANReinitAttempt,
                   writer, messageCount, liveFrameBuffer, liveFrameCounter,
                   dataTransferActive, lastDataReceivedTime, led, pc, rx,
                   frameStats, liveResponse, download>>

\* handleLiveData, lines 2583-2633, one access at a time.  cons.at = 1: the
\* loop test (reads the counter), else the response is sent; 2: the
\* staleness test (reads slot.seq); 2 + i: entry field EntryOrder[i] is read
\* from the slot, the entry is complete after the last one.
QueryStep ==
    /\ scenario.grain = "field"
    /\ race.cons.at >= 1
    /\ \E c \in {race.cons},
          slot \in {Slot(liveFrameBuffer, SlotIndex(race.cons.seq))} :
         IF c.at = 1
         THEN IF c.seq <= liveFrameCounter /\ c.added < c.limit
              THEN /\ race' = [race EXCEPT !.cons.at = 2]
                   /\ UNCHANGED liveResponse
              ELSE /\ race' = [race EXCEPT !.cons = RaceStart.cons]
                   /\ liveResponse' =
                          [ sent |-> TRUE, hasSince |-> FALSE, sinceArg |-> 0,
                            hasLimit |-> TRUE, requested |-> c.requested,
                            latest |-> c.latest, since |-> c.since,
                            limit |-> c.limit, frames |-> c.frames ]
         ELSE IF c.at = 2
         THEN /\ race' = IF SlotIsCurrent(slot, c.seq)
                         THEN [race EXCEPT !.cons.at = 3]
                         ELSE [race EXCEPT !.cons.at = 1,
                                           !.cons.seq = @ + 1]
              /\ UNCHANGED liveResponse
         ELSE \E f \in {EntryOrder[c.at - 2]} :
              \E e \in {[g \in (DOMAIN c.entry) \cup {f} |->
                           IF g = f THEN LiveEntry(slot)[f] ELSE c.entry[g]]} :
                /\ race' = IF c.at - 2 < Len(EntryOrder)
                           THEN [race EXCEPT !.cons.at = @ + 1,
                                             !.cons.entry = e]
                           ELSE [race EXCEPT !.cons.at = 1,
                                             !.cons.seq = @ + 1,
                                             !.cons.added = @ + 1,
                                             !.cons.entry = [seq |-> 0],
                                             !.cons.frames = Append(@, e)]
                /\ UNCHANGED liveResponse
    /\ UNCHANGED <<scenario, csv, lastry, unit, canInitialized, cardPresent, faults, millis,
                   bootMillis, baseTime, lastSDCardCheck, lastCANReinitAttempt,
                   writer, messageCount, liveFrameBuffer, liveFrameCounter,
                   dataTransferActive, lastDataReceivedTime, led, pc, rx,
                   frameStats, download>>

\* the logger with its storage: frames, faults, card events, downloads
Next ==
    \/ RxBegin
    \/ RxWrite
    \/ RxRecover
    \/ RxRetry
    \/ LoopTimeoutCheck
    \/ LoopCanReinit
    \/ LoopSDCheck
    \/ Tick
    \/ RemoveCard
    \/ InsertCard

Spec == Init /\ [][Next]_vars

\* the same logger with its loop running for ever: while a branch of loop()
\* is due, the clock can advance or the bus has a frame to deliver, the loop
\* task takes a step (the card's removal and insertion stay free)
LoopStep ==
    \/ RxBegin
    \/ RxWrite
    \/ RxRecover
    \/ RxRetry
    \/ LoopTimeoutCheck
    \/ LoopSDCheck
    \/ Tick

LoopFairness == WF_vars(LoopStep)

\* the boot without a card (the card is put in later) and with the CAN
\* driver started
InitLive == InitWith(BootScenarios[3], FALSE, TRUE)

NextLive ==
    \/ LoopStep
    \/ RemoveCard
    \/ InsertCard

SpecLive == InitLive /\ [][NextLive]_vars /\ LoopFairness

\* the logger while files are downloaded from it
InitDownload ==
    \E i \in 1..2 :
        InitWith([BootScenarios[i] EXCEPT !.faults = DownloadFaults,
                                          !.downloads = MaxDownloads],
                 TRUE, TRUE)

NextDownload ==
    \/ RxBegin
    \/ RxWrite
    \/ RxRecover
    \/ RxRetry
    \/ LoopTimeoutCheck
    \/ LoopSDCheck
    \/ Tick
    \/ RemoveCard
    \/ InsertCard
    \/ HandleFileDownload

SpecDownload == InitDownload /\ [][NextDownload]_vars

\* the logger while files are downloaded from it, the handler's transfer and
\* its reopen of the active file seen as two steps of the loop task
NextDownloadSteps ==
    \/ RxBegin
    \/ RxWrite
    \/ RxRecover
    \/ RxRetry
    \/ LoopTimeoutCheck
    \/ LoopSDCheck
    \/ Tick
    \/ RemoveCard
    \/ InsertCard
    \/ DownloadTransfer
    \/ DownloadReopen

SpecDownloadSteps == InitDownload /\ [][NextDownloadSteps]_vars

\* the ring buffer over long runs: no card in the slot, frames and /live
\* requests served between them
InitRing ==
    \E p \in 0..(NumPatterns - 1) :
        InitWith([BootScenarios[1] EXCEPT !.busPattern = p, !.frames = MaxPush,
                                          !.card = FALSE, !.faults = 0],
                 FALSE, TRUE)

NextRing ==
    \/ RxBegin
    \/ HandleLiveData

SpecRing == InitRing /\ [][NextRing]_vars

\* producer and consumer together: per run either whole calls alternate or
\* single accesses interleave
InitRace ==
    \E p \in 0..(NumPatterns - 1), g \in {"call", "field"} :
        InitWith([BootScenarios[1] EXCEPT !.busPattern = p,
                                          !.frames = MaxRacePush,
                                          !.card = FALSE, !.faults = 0,
                                          !.grain = g],
                 FALSE, TRUE)

NextRace ==
    \/ scenario.grain = "call" /\ RxBegin
    \/ scenario.grain = "call" /\ HandleLiveData
    \/ StoreBegin
    \/ StoreStep
    \/ QueryBegin
    \/ QueryStep

SpecRace == InitRace /\ [][NextRace]_vars

\* ---------------------------------------------------------------------------
\* Properties of the live ring buffer and of the /live query
\* ---------------------------------------------------------------------------

\* the frame the bus delivered k-th in this run
PushedFrame(k) == RxFrame(scenario.busPattern, k)

\* the frame fields of a ring slot, as storeLiveFrame is to leave them for the
\* k-th frame
SlotHoldsPushed(slot, k) ==
    LET f == PushedFrame(k)
    IN  <<slot.seq, slot.identifier, slot.extended, slot.rtr, slot.dlc,
          slot.data>>
        = <<k, f.identifier, f.extd, f.rtr, f.data_length_code,
            [i \in 0..7 |-> IF i < f.data_length_code THEN f.data[i] ELSE 0]>>

\* the frame fields of a response entry for the k-th frame
EntryIsPushed(entry, k) ==
    LET f == PushedFrame(k)
    IN  <<entry.seq, entry.id, entry.extended, entry.rtr, entry.dlc,
          entry.data>>
        = <<k, HexUpper(f.identifier), f.extd, f.rtr, f.data_length_code,
            [i \in 1..Min(f.data_length_code, 8) |-> Hex2(f.data[i - 1])]>>

\* the "since" a request carries (0 when absent)
RequestSince == IF liveResponse.hasSince THEN liveResponse.sinceArg ELSE 0

\* the limit of a request clamped to [1, C], 50 when absent or not positive
RequestLimit ==
    IF liveResponse.hasLimit /\ liveResponse.requested > 0
    THEN Max(1, Min(liveResponse.requested, LIVE_BUFFER_SIZE))
    ELSE LIVE_DEFAULT_LIMIT

\* C1: a live query whose since is at or above latest, asked of a ring that
\* has received at least one frame, answers with an empty frames list
C1_SinceAtLatestIsEmpty ==
    (liveResponse.sent /\ liveResponse.latest >= 1
        /\ RequestSince >= liveResponse.latest)
    => liveResponse.frames = <<>>

\* C7: without interleaving, after n >= 1 pushes a query with since < n
\* answers exactly the frames with sequence numbers s .. min(n, s+L-1) in
\* increasing order, s = max(since+1, n-C+1, 1), L the limit clamped to [1, C]
\* (50 when absent or not positive)
C7_QueryReturnsWindow ==
    (liveResponse.sent /\ liveResponse.latest >= 1
        /\ RequestSince < liveResponse.latest)
    => LET n == liveResponse.latest
           s == Max(Max(RequestSince + 1, n - LIVE_BUFFER_SIZE + 1), 1)
           e == Min(n, s + RequestLimit - 1)
       IN  /\ Len(liveResponse.frames) = e - s + 1
           /\ \A i \in 1..Len(liveResponse.frames) :
                EntryIsPushed(liveResponse.frames[i], s + i - 1)

\* C7 happens: since = 0 and limit = C after 2C+5 pushes answer the latest C
\* frames, C+6 .. 2C+5
C7_Witness ==
    /\ liveResponse.sent
    /\ liveResponse.latest = 2 * LIVE_BUFFER_SIZE + 5
    /\ RequestSince = 0
    /\ RequestLimit = LIVE_BUFFER_SIZE
    /\ Len(liveResponse.frames) = LIVE_BUFFER_SIZE
    /\ liveResponse.frames[1].seq = LIVE_BUFFER_SIZE + 6
    /\ liveResponse.frames[LIVE_BUFFER_SIZE].seq = 2 * LIVE_BUFFER_SIZE + 5

\* C9: between loop iterations, after n received frames, liveFrameCounter =
\* messageCount = n and, for every k from max(1, n-C+1) to n, the slot at
\* index (k-1) mod C stores sequence k with the k-th frame's fields
C9_CounterAndSlots ==
    pc = "idle"
    => /\ liveFrameCounter = messageCount
       /\ \A k \in Max(1, messageCount - LIVE_BUFFER_SIZE + 1)..messageCount :
            SlotHoldsPushed(Slot(liveFrameBuffer, (k - 1) % LIVE_BUFFER_SIZE),
                            k)

\* C9 happens: the ring has wrapped twice and slot 4 holds frame 2C+5
C9_Witness ==
    /\ pc = "idle"
    /\ messageCount = 2 * LIVE_BUFFER_SIZE + 5
    /\ Slot(liveFrameBuffer, 4).seq = 2 * LIVE_BUFFER_SIZE + 5
    /\ Slot(liveFrameBuffer, 5).seq = LIVE_BUFFER_SIZE + 6

\* ---------------------------------------------------------------------------
\* Properties of the log file writer and of the frame handler
\* ---------------------------------------------------------------------------

\* C2: when a download closed the active log file and reopened it, the
\* file's size on disk right after the reopen equals its size right before
\* the close, and currentFileSize is that size
C2_ReopenKeepsSize ==
    (download.served >= 1 /\ download.closed /\ download.reopened)
    => /\ download.sizeAfter = download.sizeBefore
       /\ download.counterAfter = download.sizeAfter

\* C3: the files createNewLogFile has created so far in this session all
\* have different names
C3_CreatedNamesDistinct ==
    \A i, j \in 1..Len(writer.createdNames) :
        i # j => writer.createdNames[i] # writer.createdNames[j]

\* C4: if a byte write failed inside writeEncryptedLine during a
\* writeCANMessage call, then on return writeCANMessage has returned false,
\* the log file is closed and sdCardReady is false
C4_ByteFailureClosesWriter ==
    (frameStats.writeCalls >= 1 /\ frameStats.byteFailed)
    => /\ ~frameStats.atReturn.ok
       /\ ~frameStats.atReturn.open
       /\ ~frameStats.atReturn.ready

\* C4 happens: a byte write of the record failed and the loop is about to
\* recover
C4_Witness ==
    /\ pc = "recover"
    /\ frameStats.byteFailed
    /\ frameStats.writes = 1
    /\ ~writer.logFile.open

\* what a file created for the frame just handled holds when that frame's
\* record is its only record
FileWithRecord ==
    FileHeaderBytes(writer.currentFileNonce) \o
    EncryptBytes(resetCipherState(writer.currentFileNonce),
                 HeaderLine \o <<Newline>> \o
                 RecordLine(rx.frame, rx.timestamp, rx.micros,
                            scenario.sensors, scenario.zone) \o
                 <<Newline>>).out

\* C5: for a frame received with storage marked ready there are at most two
\* writeCANMessage calls, the second only after the first failed and
\* createNewLogFile succeeded; when handling ends, a failed create or a
\* failed second write leaves sdCardReady false, a successful second write
\* leaves it true with the record in the new file
C5_OneRetryPerFrame ==
    (frameStats.n >= 1 /\ frameStats.startReady)
    => /\ frameStats.writeCalls <= 2
       /\ frameStats.writeCalls = 2 <=> frameStats.retried # "none"
       /\ frameStats.retried # "none" => frameStats.recovered = "ok"
       /\ pc = "recover" => frameStats.writeCalls = 1 /\ ~frameStats.atReturn.ok
       /\ pc = "retry" => frameStats.writeCalls = 1
                          /\ frameStats.recovered = "ok"
       /\ pc = "idle" =>
            /\ frameStats.writeCalls >= 1
            /\ frameStats.recovered = "none" => frameStats.atReturn.ok
            /\ frameStats.recovered = "ok" => frameStats.retried # "none"
            /\ frameStats.recovered = "failed" => ~writer.sdCardReady
            /\ frameStats.retried = "failed" => ~writer.sdCardReady
            /\ frameStats.retried = "ok" =>
                 /\ writer.sdCardReady
                 /\ writer.logFile.open
                 /\ writer.disk[writer.logFile.name] = FileWithRecord

\* C5 happens: the first write failed, the file was created again and the
\* second write of the record succeeded
C5_Witness ==
    /\ pc = "idle"
    /\ frameStats.n >= 1
    /\ frameStats.startReady
    /\ frameStats.writeCalls = 2
    /\ frameStats.retried = "ok"

\* C6: while a log file is open, the encryptByte steps taken since
\* resetCipherState ran for it equal the bytes the file holds on disk after
\* its 16-byte header, also after a download closed and reopened the file
C6_CipherStepsMatchDisk ==
    writer.logFile.open
    => writer.cipherSteps
         = Len(writer.disk[writer.logFile.name]) - NXT_HEADER_SIZE

\* C10: whatever the storage state and whatever storage call failed, every
\* received frame was stored in the ring exactly once: the counter equals
\* the number of frames received and every frame is in its slot unaltered
C10_RingIndependentOfStorage ==
    /\ liveFrameCounter = messageCount
    /\ frameStats.n >= 1 => frameStats.stores = 1 /\ frameStats.n = messageCount
    /\ \A k \in Max(1, messageCount - LIVE_BUFFER_SIZE + 1)..messageCount :
         SlotHoldsPushed(Slot(liveFrameBuffer, SlotIndex(k)), k)

\* C10 happens: the write, the new file and the retry failed for some frame,
\* a later frame arrived with storage not ready, and the ring holds both
C10_Witness ==
    /\ pc = "idle"
    /\ frameStats.n >= 2
    /\ ~frameStats.startReady
    /\ ~writer.sdCardReady
    /\ faults >= 2
    /\ liveFrameCounter = frameStats.n

\* ---------------------------------------------------------------------------
\* Producer and consumer of the ring under interleaving
\* ---------------------------------------------------------------------------

\* every entry of the response carries the fields pushed with its sequence
\* number
EntriesArePushed ==
    \A i \in 1..Len(liveResponse.frames) :
        EntryIsPushed(liveResponse.frames[i], liveResponse.frames[i].seq)

C11_NoncesDistinct ==
    \A i, j \in 1..Len(writer.createdNonces) :
        i # j => writer.createdNonces[i] # writer.createdNonces[j]

C13_ActiveOnlyWhileWriting ==
    (pc = "idle" /\ dataTransferActive /\ ~TimeoutDue) =>
        /\ writer.sdCardReady
        /\ writer.logFile.open
        /\ writer.lastWriteMillis >= 0
        /\ millis - writer.lastWriteMillis < DATA_TIMEOUT_MS

\* ---------------------------------------------------------------------------
\* Properties of the file size limit
\* ---------------------------------------------------------------------------
\* C15: in the encrypted variant a log file larger than the size limit does
\* not grow any further: the next record goes to a file opened anew.
C15_FileOverLimitNeverGrows ==
    [][ (writer.logFile.open
         /\ Len(writer.disk[writer.logFile.name]) > FileSizeLimit)
        => ~ ( /\ writer'.logFile = writer.logFile
               /\ Len(writer'.disk[writer.logFile.name])
                      > Len(writer.disk[writer.logFile.name]) ) ]_vars

\* ---------------------------------------------------------------------------
\* Properties of the records on the card
\* ---------------------------------------------------------------------------
\* the nonce a file's 16-byte header carries (bytes 9..12, little-endian)
HeaderNonce(bytes) ==
    <<bytes[11] + 256 * bytes[12], bytes[9] + 256 * bytes[10]>>

\* a file as a decoder reads it: the text after the header, decrypted with
\* the keystream of the header's nonce
DecodedText(bytes) ==
    IF Len(bytes) <= NXT_HEADER_SIZE THEN <<>>
    ELSE EncryptBytes(resetCipherState(HeaderNonce(bytes)),
                      SubSeq(bytes, NXT_HEADER_SIZE + 1, Len(bytes))).out

\* the writer's text of every file is what a decoder reads from the card
TextIsDecodedDisk ==
    \A n \in DOMAIN writer.disk :
        writer.text[n] = DecodedText(writer.disk[n])

\* the record line of the i-th frame handed to the writer
SubmittedLine(i) ==
    RecordLine(RxFrame(scenario.busPattern, writer.submitted[i].n),
               writer.submitted[i].timestamp, writer.submitted[i].micros,
               scenario.sensors, scenario.zone)

\* the places of a text at which the given line stands as a complete line:
\* at the start of a line, whole, and ended by its newline
LinePlaces(text, line) ==
    { p \in 1..Len(text) :
        /\ p = 1 \/ text[p - 1] = Newline
        /\ p + Len(line) <= Len(text)
        /\ text[p + Len(line)] = Newline
        /\ \A k \in 1..Len(line) : text[p + k - 1] = line[k] }

\* C17: a frame's record stands as a complete line at most once in all the
\* files on the card, and within a file the complete record lines stand in
\* the order in which their frames were received.
C17_RecordsOnceInOrder ==
    LET names  == DOMAIN writer.disk
        count  == Len(writer.submitted)
        texts  == writer.text
        lines  == [i \in 1..count |-> SubmittedLine(i)]
        places == [n \in names |->
                     [i \in 1..count |-> LinePlaces(texts[n], lines[i])]]
    IN  /\ \A i \in 1..count : \A n1, n2 \in names :
             \A p1 \in places[n1][i], p2 \in places[n2][i] :
                 n1 = n2 /\ p1 = p2
        /\ \A n \in names : \A i, j \in 1..count :
             i < j => \A p \in places[n][i], q \in places[n][j] : p < q

\* the first write of a frame failed, the retry wrote the record into the
\* file created anew, where it stands once, and the file written before
\* is still on the card with the failed write's bytes
C17_Witness ==
    /\ pc = "idle"
    /\ frameStats.retried = "ok"
    /\ frameStats.writes = 2
    /\ Cardinality(DOMAIN writer.disk) = 2
    /\ \E n \in DOMAIN writer.disk :
           /\ n # writer.logFile.name
           /\ Len(writer.disk[n]) > NXT_HEADER_SIZE + Len(HeaderLine) + 1
    /\ Cardinality(LinePlaces(writer.text[writer.logFile.name],
                              SubmittedLine(Len(writer.submitted)))) = 1

\* ---------------------------------------------------------------------------
\* Properties of the download of the active file
\* ---------------------------------------------------------------------------
\* C18: while the active file is closed for a download and not yet reopened,
\* no frame is taken from the bus, no record is written and no file is
\* created.
C18_DownloadSequenceAtomic ==
    [][ download.inFlight =>
          /\ messageCount' = messageCount
          /\ writer'.submitted = writer.submitted
          /\ writer'.cipherSteps = writer.cipherSteps
          /\ writer'.randomDraws = writer.randomDraws
          /\ writer'.createdNames = writer.createdNames
          /\ writer'.byteFailures = writer.byteFailures ]_vars

\* the active file is closed for a download while storage is ready and the
\* bus has frames to deliver
C18_Witness ==
    /\ download.inFlight
    /\ pc = "download"
    /\ ~writer.logFile.open
    /\ writer.sdCardReady
    /\ canInitialized
    /\ messageCount >= 1
    /\ messageCount < scenario.frames

\* ---------------------------------------------------------------------------
\* Recovery of storage
\* ---------------------------------------------------------------------------
\* the card is in the slot and stays accessible: no fault is left to come
AccessibleForGood == cardPresent /\ faults = scenario.faults

\* the periodic card check is due or will be after the clock's next step
CheckWillCome ==
    SDCheckDue \/ millis + TickMs <= SetupMillis + MaxTicks * TickMs

\* the frame just handled was written to the open log file
FrameWritten ==
    /\ pc = "idle"
    /\ writer.sdCardReady
    /\ writer.logFile.open
    /\ frameStats.n >= 1
    /\ frameStats.writes >= 1
    /\ frameStats.atReturn.ok
    /\ writer.lastWriteMillis = millis

\* C19: once the card is accessible for good, storage that is not ready
\* becomes ready again, and with storage ready and frames still arriving a
\* log file is open and a received frame is written to it.
C19_StorageRecovers ==
    /\ (AccessibleForGood /\ ~writer.sdCardReady /\ CheckWillCome)
           ~> writer.sdCardReady
    /\ (AccessibleForGood /\ writer.sdCardReady /\ canInitialized
        /\ messageCount < scenario.frames)
           ~> FrameWritten

\* a frame is written after the card had been out, storage having been
\* marked not ready and found again by the periodic check
C19_Witness ==
    /\ FrameWritten
    /\ AccessibleForGood
    /\ faults >= 1
    /\ writer.lastClose.wasOpen
    /\ lastSDCardCheck > 0
    /\ Len(writer.createdNames) >= 2

(* ------------------------------------------------------------------ *)
(* The CSV sketch (src/unnamed/part_001)                                *)
(* ------------------------------------------------------------------ *)
\* A file of this sketch is the sequence of its lines, each with the frame
\* it records (0 for the column header) and its length in bytes, line end
\* included.
\* the column header written by writeFileHeader, 866 characters and "\r\n"
Csv_HeaderLine == [n |-> 0, size |-> 868]

\* lengths of a record line (the decoded fields make it longer)
Csv_LineSizes == {120, 160}

RECURSIVE Csv_Size(_)
\* File::size()
Csv_Size(lines) ==
    IF lines = <<>> THEN 0 ELSE Head(lines).size + Csv_Size(Tail(lines))

\* the frames recorded in a file
Csv_Records(lines) == { lines[i].n : i \in 1..Len(lines) } \ {0}

\* the frames recorded anywhere on the card
Csv_RecordsOnCard(c) == UNION { Csv_Records(c.disk[f]) : f \in DOMAIN c.disk }

\* generateLogFileName: the name is built from baseTime (localtime, no zone
\* set in this sketch)
Csv_generateLogFileName(base) ==
    The({ <<47, 67, 65, 78, 95, 76, 111, 103, 103, 101, 100, 95, 68, 97, 116,
            97, 47>> \o <<67, 65, 78, 95, 76, 79, 71, 95>> \o
          DecPad(tm.year, 4) \o DecPad(tm.mon, 2) \o DecPad(tm.mday, 2) \o
          <<95>> \o DecPad(tm.hour, 2) \o DecPad(tm.min, 2) \o
          DecPad(tm.sec, 2) \o <<46, 67, 83, 86>> :
          tm \in {LocalTime(base, 0)} })

\* no call of writeCANMessage yet
PlainNoWrite ==
    [ called |-> FALSE, rolled |-> FALSE, ok |-> FALSE, n |-> 0,
      before |-> {}, nameBefore |-> <<>> ]

\* the state setup() leaves for loop(): initializeBaseTime sets baseTime to
\* the build's time (nothing assigns it again), initializeSDCard succeeds
\* when an accessible card is in the slot
Csv_Setup(card) ==
    [ running |-> TRUE, cardPresent |-> card, faults |-> 0,
      millis |-> SetupMillis, baseTime |-> CompileTime,
      sdCardReady |-> card, canInitialized |-> TRUE, logFile |-> FALSE,
      currentLogFileName |-> <<>>, currentFileSize |-> 0,
      disk |-> [f \in {} |-> <<>>], messageCount |-> 0,
      dataTransferActive |-> FALSE, lastDataReceivedTime |-> 0,
      lastSDCardCheck |-> 0, written |-> <<>>, last |-> PlainNoWrite ]

\* closeCurrentFile
Csv_closeCurrentFile(c) == [c EXCEPT !.logFile = FALSE]

\* createNewLogFile; fault is "none", "open" or "header".  Returns <<c, ok>>.
Csv_createNewLogFile(c, fault) ==
    IF ~c.cardPresent
    THEN <<[c EXCEPT !.logFile = FALSE], FALSE>>
    ELSE IF fault = "open"
    THEN <<[c EXCEPT !.logFile = FALSE,
                     !.currentLogFileName = Csv_generateLogFileName(c.baseTime)],
           FALSE>>
    ELSE IF fault = "header"
    THEN <<The({ [c EXCEPT !.logFile = FALSE, !.currentLogFileName = name,
                           !.disk = OpenForWrite(@, name)] :
                 name \in {Csv_generateLogFileName(c.baseTime)} }), FALSE>>
    ELSE <<The({ [c EXCEPT !.logFile = TRUE, !.currentLogFileName = name,
                           !.disk = [f \in (DOMAIN @) \cup {name} |->
                                       IF f = name THEN <<Csv_HeaderLine>>
                                       ELSE @[f]],
                           !.currentFileSize = Csv_HeaderLine.size] :
                 name \in {Csv_generateLogFileName(c.baseTime)} }), TRUE>>

\* the println of writeCANMessage and what follows it
Csv_appendLine(c, n, size, fault) ==
    IF fault = "write" \/ ~c.cardPresent
    THEN <<c, FALSE>>
    ELSE <<The({ [c EXCEPT !.disk[c.currentLogFileName] = lines,
                           !.currentFileSize = Csv_Size(lines),
                           !.written = Append(@, n)] :
                 lines \in {Append(c.disk[c.currentLogFileName],
                                   [n |-> n, size |-> size])} }), TRUE>>

\* writeCANMessage from the size check on
Csv_writeFromSizeCheck(c, n, size, fault) ==
    IF c.currentFileSize > CsvFileSizeLimit
    THEN The({ IF cr[2] THEN Csv_appendLine(cr[1], n, size, fault)
               ELSE <<cr[1], FALSE>> :
               cr \in {Csv_createNewLogFile(c, fault)} })
    ELSE Csv_appendLine(c, n, size, fault)

\* writeCANMessage from the check of the file on
Csv_writeFromFileCheck(c, n, size, fault) ==
    IF ~c.logFile
    THEN The({ IF cr[2] THEN Csv_writeFromSizeCheck(cr[1], n, size, "none")
               ELSE <<[cr[1] EXCEPT !.sdCardReady = FALSE], FALSE>> :
               cr \in {Csv_createNewLogFile(c, fault)} })
    ELSE Csv_writeFromSizeCheck(c, n, size, fault)

\* writeCANMessage(frame, timestamp, micros) for frame number n, whose line
\* has size bytes.  Returns <<c, ok>>.
Csv_writeCANMessage(c, n, size, fault) ==
    IF ~c.sdCardReady
    THEN IF ~c.cardPresent
         THEN <<[c EXCEPT !.sdCardReady = FALSE], FALSE>>
         ELSE The({ IF cr[2]
                    THEN Csv_writeFromFileCheck(
                             [cr[1] EXCEPT !.sdCardReady = TRUE], n, size,
                             "none")
                    ELSE <<[cr[1] EXCEPT !.sdCardReady = FALSE], FALSE>> :
                    cr \in {Csv_createNewLogFile(c, fault)} })
    ELSE Csv_writeFromFileCheck(c, n, size, fault)

\* the body of the receive loop for one frame
Csv_loopFrame(c, size, fault) ==
    The({ The({ IF ~c2.sdCardReady
                THEN [c2 EXCEPT !.last = PlainNoWrite]
                ELSE The({ [wr[1] EXCEPT
                              !.sdCardReady = IF wr[2] THEN @ ELSE FALSE,
                              !.last =
                                  [ called |-> TRUE,
                                    rolled |-> c2.logFile /\
                                       c2.currentFileSize > CsvFileSizeLimit,
                                    ok |-> wr[2], n |-> c2.messageCount,
                                    before |-> Csv_RecordsOnCard(c2),
                                    nameBefore |-> c2.currentLogFileName ]] :
                           wr \in {Csv_writeCANMessage(c2, c2.messageCount,
                                                       size, fault)} }) :
                c2 \in {IF c1.sdCardReady /\ ~c1.logFile
                        THEN Csv_createNewLogFile(c1, "none")[1]
                        ELSE c1} }) :
          c1 \in {[c EXCEPT !.messageCount = @ + 1,
                            !.lastDataReceivedTime = c.millis,
                            !.dataTransferActive = TRUE]} })

\* loop: one frame is received and handled
Csv_Rx ==
    /\ csv.running /\ csv.canInitialized
    /\ csv.messageCount < PlainMaxFrames
    /\ \E size \in Csv_LineSizes, fault \in {"none", "open", "header", "write"} :
          /\ fault # "none" => csv.cardPresent /\ csv.faults < PlainMaxFaults
          /\ csv' = [Csv_loopFrame(csv, size, fault) EXCEPT
                        !.faults = IF fault = "none" THEN @ ELSE @ + 1]
    /\ UNCHANGED <<encodedVars, lastry, unit>>

Csv_TimeoutDue ==
    csv.dataTransferActive /\
    csv.millis - csv.lastDataReceivedTime >= DATA_TIMEOUT_MS

\* loop: the data transfer timeout
Csv_LoopTimeoutCheck ==
    /\ csv.running /\ csv.canInitialized
    /\ Csv_TimeoutDue
    /\ csv' = [csv EXCEPT !.dataTransferActive = FALSE, !.last = PlainNoWrite]
    /\ UNCHANGED <<encodedVars, lastry, unit>>

\* loop: the check of the card every 2 s
Csv_LoopSDCheck ==
    /\ csv.running
    /\ ~Csv_TimeoutDue
    /\ csv.millis - csv.lastSDCardCheck > 2000
    /\ csv' = [ (IF csv.sdCardReady
                 THEN IF ~csv.cardPresent
                      THEN [Csv_closeCurrentFile(csv) EXCEPT
                               !.sdCardReady = FALSE,
                               !.dataTransferActive = FALSE]
                      ELSE csv
                 ELSE [csv EXCEPT !.sdCardReady = csv.cardPresent])
                EXCEPT !.lastSDCardCheck = csv.millis, !.last = PlainNoWrite ]
    /\ UNCHANGED <<encodedVars, lastry, unit>>

\* time passes
Csv_Tick ==
    /\ csv.running
    /\ csv.millis + TickMs <= SetupMillis + PlainMaxTicks * TickMs
    /\ ~Csv_TimeoutDue /\ csv.millis - csv.lastSDCardCheck <= 2000
    /\ csv' = [csv EXCEPT !.millis = @ + TickMs, !.last = PlainNoWrite]
    /\ UNCHANGED <<encodedVars, lastry, unit>>

\* the card is pulled out of the slot (counted as a storage fault)
Csv_RemoveCard ==
    /\ csv.running
    /\ csv.cardPresent /\ csv.faults < PlainMaxFaults
    /\ csv' = [csv EXCEPT !.cardPresent = FALSE, !.faults = @ + 1,
                          !.last = PlainNoWrite]
    /\ UNCHANGED <<encodedVars, lastry, unit>>

\* the same card is pushed back in
Csv_InsertCard ==
    /\ csv.running
    /\ ~csv.cardPresent
    /\ csv' = [csv EXCEPT !.cardPresent = TRUE, !.last = PlainNoWrite]
    /\ UNCHANGED <<encodedVars, lastry, unit>>

\* the CSV sketch is the one on the board; it boots with or without a card
InitCsv ==
    /\ SetupEncoded(BootScenarios[1], BootScenarios[1].card, BootScenarios[1].can)
    /\ lastry = NotFlashed
    /\ unit = NotFlashed
    /\ \E card \in BOOLEAN : csv = Csv_Setup(card)

NextCsv ==
    \/ Csv_Rx
    \/ Csv_LoopTimeoutCheck
    \/ Csv_LoopSDCheck
    \/ Csv_Tick
    \/ Csv_RemoveCard
    \/ Csv_InsertCard

SpecCsv == InitCsv /\ [][NextCsv]_vars

(* ------------------------------------------------------------------ *)
(* C14: the rollover of the CSV sketch                                  *)
(* ------------------------------------------------------------------ *)
\* the last frame was handled by a writeCANMessage that found the open file
\* over the limit and returned true
Csv_RolledOver == csv.running /\ csv.last.called /\ csv.last.rolled /\ csv.last.ok

\* C14: in the CSV sketch, a writeCANMessage called with currentFileSize over
\* MAX_FILE_SIZE that succeeds has closed the file, created a new one and
\* written the triggering record into it: no record that was on the card is
\* dropped, and the logger is still logging (storage ready, file open).
C14_RolloverDropsNoRecord ==
    Csv_RolledOver =>
        /\ csv.last.before \subseteq Csv_RecordsOnCard(csv)
        /\ csv.last.n \in Csv_Records(csv.disk[csv.currentLogFileName])
        /\ csv.last.n \notin csv.last.before
        /\ csv.sdCardReady /\ csv.logFile

(* ------------------------------------------------------------------ *)
(* The serial-command sketch (src/Lastry_UI_mf4/Lastry.ino)             *)
(* ------------------------------------------------------------------ *)
\* the column header written by writeFileHeader, 99 characters and "\r\n"
Lastry_HeaderLine == [n |-> 0, size |-> 101]

\* lengths of a record line, line end included
Lastry_LineSizes == {70, 76}

\* generateLogFileName with the default prefix
Lastry_generateLogFileName(base) ==
    The({ <<47>> \o <<67, 65, 78, 95, 76, 79, 71, 95>> \o
          DecPad(tm.year, 4) \o DecPad(tm.mon, 2) \o DecPad(tm.mday, 2) \o
          <<95>> \o DecPad(tm.hour, 2) \o DecPad(tm.min, 2) \o
          DecPad(tm.sec, 2) \o <<46, 99, 115, 118>> :
          tm \in {LocalTime(base, 0)} })

\* the state setup() leaves for loop(), with the RTC found: no file is
\* created and logging is off until the user asks.  started records that
\* START_LOG was accepted since the last CREATE_FILE and STOP_LOG.
Lastry_Setup(card) ==
    [ running |-> TRUE, cardPresent |-> card, faults |-> 0,
      millis |-> SetupMillis, baseTime |-> getRTCTime(SetupMillis, 0),
      sdCardReady |-> card, logFile |-> FALSE,
      currentLogFileName |-> <<>>, currentFileSize |-> 0,
      disk |-> [f \in {} |-> <<>>], loggingEnabled |-> FALSE,
      stoppedByUser |-> FALSE, messageCount |-> 0, lastSDCardCheck |-> 0,
      last |-> PlainNoWrite, auto |-> [detected |-> FALSE, frames |-> 0],
      started |-> FALSE ]

\* createNewLogFile; fault is "none" or "open".  Returns <<l, ok>>.
Lastry_createNewLogFile(l, fault) ==
    IF ~l.cardPresent \/ fault = "open"
    THEN <<[l EXCEPT !.logFile = FALSE,
                     !.currentLogFileName = Lastry_generateLogFileName(l.baseTime)],
           FALSE>>
    ELSE <<The({ [l EXCEPT !.logFile = TRUE, !.currentLogFileName = name,
                           !.disk = [f \in (DOMAIN @) \cup {name} |->
                                       IF f = name THEN <<Lastry_HeaderLine>>
                                       ELSE @[f]],
                           !.currentFileSize = Lastry_HeaderLine.size] :
                 name \in {Lastry_generateLogFileName(l.baseTime)} }), TRUE>>

\* writeCANMessage(frame, timestamp, micros) for frame number n, whose line
\* has size bytes; closeCurrentFile closes the file.  Returns <<l, ok>>.
Lastry_writeCANMessage(l, n, size, fault) ==
    IF ~l.logFile \/ ~l.sdCardReady
    THEN <<l, FALSE>>
    ELSE IF l.currentFileSize > LastryFileSizeLimit
    THEN <<[l EXCEPT !.loggingEnabled = FALSE, !.stoppedByUser = TRUE,
                     !.logFile = FALSE], FALSE>>
    ELSE IF fault = "write" \/ ~l.cardPresent
    THEN <<l, FALSE>>
    ELSE <<[l EXCEPT !.disk[l.currentLogFileName] =
                         Append(@, [n |-> n, size |-> size]),
                     !.currentFileSize = @ + size], TRUE>>

\* loop: one line of serial input.  Returns <<l, returned>>, returned when
\* the handler leaves loop() at once.
Lastry_command(l, input, fault) ==
    IF input = "START_LOG"
    THEN IF ~l.sdCardReady
         THEN <<l, FALSE>>
         ELSE IF ~l.logFile
         THEN <<l, TRUE>>
         ELSE <<[l EXCEPT !.loggingEnabled = TRUE, !.stoppedByUser = FALSE,
                          !.started = TRUE], FALSE>>
    ELSE IF input = "STOP_LOG"
    THEN <<[l EXCEPT !.loggingEnabled = FALSE, !.stoppedByUser = TRUE,
                     !.logFile = FALSE, !.started = FALSE], FALSE>>
    ELSE IF input = "CREATE_FILE"
    THEN IF ~l.sdCardReady /\ ~l.cardPresent
         THEN <<l, FALSE>>
         ELSE <<Lastry_createNewLogFile(
                    [l EXCEPT !.sdCardReady = TRUE, !.logFile = FALSE,
                              !.started = FALSE],
                    fault)[1], FALSE>>
    ELSE <<l, FALSE>>

\* loop: "ensure logging state is consistent"
Lastry_consistency(l) ==
    IF ~l.loggingEnabled
    THEN l
    ELSE The({ IF l1.sdCardReady /\ ~l1.logFile
               THEN [l1 EXCEPT !.loggingEnabled = FALSE,
                               !.stoppedByUser = TRUE]
               ELSE l1 :
               l1 \in {IF l.sdCardReady THEN l
                       ELSE IF l.cardPresent
                       THEN [l EXCEPT !.sdCardReady = TRUE]
                       ELSE [l EXCEPT !.loggingEnabled = FALSE,
                                      !.stoppedByUser = TRUE]} })

\* loop: one received frame
Lastry_frame(l, size, fault) ==
    The({ IF ~(l1.loggingEnabled /\ l1.sdCardReady /\ l1.logFile)
          THEN l1
          ELSE The({ [ (IF wr[2] THEN wr[1]
                        ELSE [wr[1] EXCEPT !.loggingEnabled = FALSE,
                                           !.stoppedByUser = TRUE,
                                           !.logFile = FALSE])
                       EXCEPT !.last =
                           [ called |-> TRUE,
                             rolled |-> l1.currentFileSize > LastryFileSizeLimit,
                             ok |-> wr[2], n |-> l1.messageCount,
                             before |-> Csv_RecordsOnCard(l1),
                             nameBefore |-> l1.currentLogFileName ] ] :
                     wr \in {Lastry_writeCANMessage(l1, l1.messageCount, size,
                                                    fault)} }) :
          l1 \in {[l EXCEPT !.messageCount = @ + 1,
                            !.auto.frames = IF l.auto.detected THEN @ + 1
                                            ELSE @]} })

\* loop: the check of the card every 2 s, with autoDetectAndInitSDCard
Lastry_sdCheck(l) ==
    IF l.millis - l.lastSDCardCheck <= 2000
    THEN l
    ELSE [ (IF ~l.sdCardReady
            THEN IF l.cardPresent
                 THEN [l EXCEPT !.baseTime = getRTCTime(l.millis, 0),
                                !.sdCardReady = TRUE,
                                !.auto = [detected |-> TRUE, frames |-> 0]]
                 ELSE l
            ELSE IF ~l.cardPresent
                 THEN [l EXCEPT !.logFile = FALSE, !.sdCardReady = FALSE,
                                !.auto = [detected |-> FALSE, frames |-> 0]]
                 ELSE l)
           EXCEPT !.lastSDCardCheck = l.millis ]

\* one pass of loop(): the serial input if there is any, the consistency
\* check, the frame if one has arrived, the check of the card if it is due
Lastry_loop(l, input, frame, size, fault) ==
    The({ IF cr[2] THEN cr[1]
          ELSE The({ Lastry_sdCheck(IF frame
                                    THEN Lastry_frame(l2, size, fault)
                                    ELSE l2) :
                     l2 \in {Lastry_consistency(cr[1])} }) :
          cr \in {Lastry_command([l EXCEPT !.last = PlainNoWrite], input,
                                 fault)} })

\* a pass of loop() with a command on the serial line
Lastry_Serial ==
    /\ lastry.running
    /\ \E input \in {"START_LOG", "STOP_LOG", "CREATE_FILE"}, fault \in {"none", "open"} :
          /\ fault # "none" =>
                /\ input = "CREATE_FILE"
                /\ lastry.cardPresent /\ lastry.faults < PlainMaxFaults
          /\ lastry' = [Lastry_loop(lastry, input, FALSE, 0, fault) EXCEPT
                           !.faults = IF fault = "none" THEN @ ELSE @ + 1,
                           !.auto = [detected |-> FALSE, frames |-> 0]]
    /\ UNCHANGED <<encodedVars, csv, unit>>

\* a pass of loop() with a frame received
Lastry_Rx ==
    /\ lastry.running
    /\ lastry.messageCount < PlainMaxFrames
    /\ \E size \in Lastry_LineSizes, fault \in {"none", "write"} :
          /\ fault # "none" =>
                /\ lastry.loggingEnabled /\ lastry.logFile
                /\ lastry.cardPresent /\ lastry.faults < PlainMaxFaults
          /\ lastry' = [Lastry_loop(lastry, "", TRUE, size, fault) EXCEPT
                           !.faults = IF fault = "none" THEN @ ELSE @ + 1]
    /\ UNCHANGED <<encodedVars, csv, unit>>

\* a pass of loop() with neither, when the check of the card is due
Lastry_LoopSDCheck ==
    /\ lastry.running
    /\ lastry.millis - lastry.lastSDCardCheck > 2000
    /\ lastry' = Lastry_loop(lastry, "", FALSE, 0, "none")
    /\ UNCHANGED <<encodedVars, csv, unit>>

\* time passes
Lastry_Tick ==
    /\ lastry.running
    /\ lastry.millis + TickMs <= SetupMillis + PlainMaxTicks * TickMs
    /\ lastry.millis - lastry.lastSDCardCheck <= 2000
    /\ lastry' = [lastry EXCEPT !.millis = @ + TickMs, !.last = PlainNoWrite]
    /\ UNCHANGED <<encodedVars, csv, unit>>

\* the card is pulled out of the slot (counted as a storage fault)
Lastry_RemoveCard ==
    /\ lastry.running
    /\ lastry.cardPresent /\ lastry.faults < PlainMaxFaults
    /\ lastry' = [lastry EXCEPT !.cardPresent = FALSE, !.faults = @ + 1,
                                !.last = PlainNoWrite]
    /\ UNCHANGED <<encodedVars, csv, unit>>

\* a card is pushed in
Lastry_InsertCard ==
    /\ lastry.running
    /\ ~lastry.cardPresent
    /\ lastry' = [lastry EXCEPT !.cardPresent = TRUE, !.last = PlainNoWrite]
    /\ UNCHANGED <<encodedVars, csv, unit>>

\* the serial-command sketch is the one on the board
InitLastry ==
    /\ SetupEncoded(BootScenarios[1], BootScenarios[1].card, BootScenarios[1].can)
    /\ csv = NotFlashed
    /\ unit = NotFlashed
    /\ \E card \in BOOLEAN : lastry = Lastry_Setup(card)

NextLastry ==
    \/ Lastry_Serial
    \/ Lastry_Rx
    \/ Lastry_LoopSDCheck
    \/ Lastry_Tick
    \/ Lastry_RemoveCard
    \/ Lastry_InsertCard

SpecLastry == InitLastry /\ [][NextLastry]_vars

(* ------------------------------------------------------------------ *)
(* C16: the size limit of the serial-command sketch                     *)
(* ------------------------------------------------------------------ *)
\* C16: in the serial-command sketch, a frame that arrives while logging is
\* enabled and the current file is over its size limit is not dropped: the
\* device has created a new file by itself, the frame's record is in it,
\* and logging is still enabled.
C16_LimitRollsOver ==
    (lastry.running /\ lastry.last.called /\ lastry.last.rolled) =>
        /\ lastry.loggingEnabled /\ lastry.logFile
        /\ lastry.currentLogFileName # lastry.last.nameBefore
        /\ lastry.last.n \in Csv_Records(lastry.disk[lastry.currentLogFileName])

(* ------------------------------------------------------------------ *)
(* C20: card insertion in the serial-command sketch                     *)
(* ------------------------------------------------------------------ *)
\* C20: in the serial-command sketch, once the periodic check has detected
\* an inserted card and no serial command has been given since, a frame
\* received while the card stays in is logged: a log file has been created
\* and is open, logging is enabled and the frame's record is in the file.
C20_InsertionResumesLogging ==
    (lastry.running /\ lastry.auto.detected /\ lastry.auto.frames >= 1 /\
     lastry.cardPresent /\ lastry.sdCardReady) =>
        /\ lastry.logFile /\ lastry.loggingEnabled
        /\ lastry.messageCount \in
               Csv_Records(lastry.disk[lastry.currentLogFileName])

(* ------------------------------------------------------------------ *)
(* C21: CREATE_FILE, START_LOG and STOP_LOG in the serial-command sketch *)
(* ------------------------------------------------------------------ *)
\* C21: in the serial-command sketch, a record is written to a file only if
\* START_LOG was accepted after the file was created by CREATE_FILE and no
\* STOP_LOG has followed.
C21_RecordsOnlyAfterStart ==
    (lastry.running /\ lastry.last.called /\ lastry.last.ok) => lastry.started

(* ------------------------------------------------------------------ *)
(* C22: the GREEN status LED                                            *)
(* ------------------------------------------------------------------ *)
\* everything the documents require for GREEN
AllReadyForGreen ==
    /\ scenario.rtcAvailable /\ scenario.wifiConnected /\ canInitialized
    /\ writer.sdCardReady /\ writer.logFile.open
    /\ ~dataTransferActive

\* C22: the status LED of the encrypted logger is set to GREEN only when
\* RTC, SD card, Wi-Fi STA+AP, CAN and the log file are all ready and no
\* data transfer is active.
C22_GreenOnlyWhenAllReady ==
    [][(led' = "GREEN" /\ led # "GREEN") => AllReadyForGreen']_vars

(* ------------------------------------------------------------------ *)
(* The cipher on its own                                                *)
(* ------------------------------------------------------------------ *)
\* nonces of the runs: zero, all ones, the mask (the seed is then 0), the
\* top bit, the lowest bit, and two mixed words
CipherNonces ==
    { <<0, 0>>, <<65535, 65535>>, CIPHER_MASK, <<32768, 0>>, <<0, 1>>,
      <<4660, 22136>>, <<57005, 48879>> }

\* bytes given to encryptByte
CipherBytes == {0, 65, 165, 255}

\* writeFileHeader has set currentFileNonce and called resetCipherState
InitCipher ==
    /\ SetupEncoded(BootScenarios[1], BootScenarios[1].card, BootScenarios[1].can)
    /\ csv = NotFlashed
    /\ lastry = NotFlashed
    /\ \E nonce \in CipherNonces :
          unit = [ running |-> TRUE, kind |-> "cipher", nonce |-> nonce,
                   state |-> resetCipherState(nonce), phase |-> "encrypt",
                   plain |-> <<>>, out |-> <<>>, back |-> <<>> ]

\* encryptByte on one more byte of the text; resetCipherState with the same
\* nonce (a decoder opening the file); encryptByte on one more byte of the
\* encrypted text
CipherStep ==
    /\ unit.running /\ unit.kind = "cipher"
    /\ \/ /\ unit.phase = "encrypt" /\ Len(unit.plain) < MaxCipherLen
          /\ \E b \in CipherBytes :
                unit' = The({ [unit EXCEPT !.plain = Append(@, b),
                                           !.out = Append(@, e[1]),
                                           !.state = e[2]] :
                              e \in {encryptByte(unit.state, b)} })
       \/ /\ unit.phase = "encrypt" /\ Len(unit.plain) >= 1
          /\ unit' = [unit EXCEPT !.phase = "decrypt",
                                  !.state = resetCipherState(unit.nonce)]
       \/ /\ unit.phase = "decrypt" /\ Len(unit.back) < Len(unit.out)
          /\ unit' = The({ [unit EXCEPT !.back = Append(@, e[1]),
                                        !.state = e[2]] :
                           e \in {encryptByte(unit.state,
                                              unit.out[Len(unit.back) + 1])} })
    /\ UNCHANGED <<encodedVars, csv, lastry>>

SpecCipher == InitCipher /\ [][CipherStep]_vars

(* ------------------------------------------------------------------ *)
(* C23: the reference keystream                                         *)
(* ------------------------------------------------------------------ *)
\* The reference of NXTLOG_FILE_FORMAT.md, computed on the four bytes of the
\* state (lowest first) with schoolbook carries.
\* 1664525 = 0x0019660D and 1013904223 = 0x3C6EF35F, lowest byte first
RefMultiplier == <<13, 102, 25, 0>>

RefIncrement == <<95, 243, 110, 60>>

\* exclusive or of two bytes, bit by bit
RefXor8(a, b) ==
    LET bit(i) == ((a \div (2 ^ i)) + (b \div (2 ^ i))) % 2
    IN  bit(0) + 2 * bit(1) + 4 * bit(2) + 8 * bit(3) + 16 * bit(4) +
        32 * bit(5) + 64 * bit(6) + 128 * bit(7)

\* state * 1664525 + 1013904223 + add, modulo 2^32
RefMulAdd(s, add) ==
    LET m  == RefMultiplier
        c0 == s[1] * m[1] + RefIncrement[1] + add
        c1 == s[2] * m[1] + s[1] * m[2] + RefIncrement[2] + (c0 \div 256)
        c2 == s[3] * m[1] + s[2] * m[2] + s[1] * m[3] + RefIncrement[3] +
              (c1 \div 256)
        c3 == s[4] * m[1] + s[3] * m[2] + s[2] * m[3] + s[1] * m[4] +
              RefIncrement[4] + (c2 \div 256)
    IN  <<c0 % 256, c1 % 256, c2 % 256, c3 % 256>>

\* the four bytes of a 32-bit word, lowest first
RefBytes(word) ==
    <<word[2] % 256, word[2] \div 256, word[1] % 256, word[1] \div 256>>

RECURSIVE RefFold(_, _)
RefFold(s, i) ==
    IF i > 16 THEN s ELSE RefFold(RefMulAdd(s, ENCRYPTION_KEY[i]), i + 1)

\* state = nonce XOR 0xA5A5A5A5, folded through the 16 key bytes
RefInit(nonce) ==
    RefFold([i \in 1..4 |-> RefXor8(RefBytes(nonce)[i], 165)], 1)

RECURSIVE RefState(_, _)
\* the reference state after n bytes
RefState(nonce, n) ==
    IF n = 0 THEN RefInit(nonce) ELSE RefMulAdd(RefState(nonce, n - 1), 0)

\* keystream byte = (state >> 24) XOR key[state & 0x0F]
RefStreamByte(s) == RefXor8(s[4], ENCRYPTION_KEY[(s[1] % 16) + 1])

\* C23: resetCipherState and encryptByte compute exactly the reference
\* keystream in unsigned 32-bit wraparound arithmetic: after n bytes the
\* cipher state is the reference state for the nonce, and every output byte
\* is its input byte XOR the reference keystream byte of its position (so
\* the keystream depends on the nonce alone).
C23_KeystreamIsReference ==
    (unit.running /\ unit.kind = "cipher" /\ unit.phase = "encrypt") =>
        /\ RefBytes(unit.state) = RefState(unit.nonce, Len(unit.plain))
        /\ \A i \in 1..Len(unit.plain) :
              unit.out[i] =
                  RefXor8(unit.plain[i], RefStreamByte(RefState(unit.nonce, i)))

\* three bytes were encrypted under a nonce whose seed wraps at once
C23_Witness ==
    /\ unit.running /\ unit.kind = "cipher" /\ unit.phase = "encrypt"
    /\ unit.nonce = <<65535, 65535>>
    /\ Len(unit.out) = MaxCipherLen
    /\ unit.out # unit.plain

(* ------------------------------------------------------------------ *)
(* C24: decryption is encryption                                        *)
(* ------------------------------------------------------------------ *)
\* C24: for every nonce and byte sequence P, encryptByte run over P from
\* resetCipherState(nonce) and then, re-initialised with the same nonce,
\* over the result, returns P.
C24_DecryptReturnsPlain ==
    (unit.running /\ unit.kind = "cipher" /\ unit.phase = "decrypt") =>
        \A i \in 1..Len(unit.back) : unit.back[i] = unit.plain[i]

\* a whole encrypted text was run through the cipher again
C24_Witness ==
    /\ unit.running /\ unit.kind = "cipher" /\ unit.phase = "decrypt"
    /\ Len(unit.plain) = MaxCipherLen
    /\ unit.back = unit.plain
    /\ unit.out # unit.plain

(* ------------------------------------------------------------------ *)
(* The record encoders on their own                                     *)
(* ------------------------------------------------------------------ *)
\* writeFileHeader of the CSV sketch: the columns after Data7 (",Message"
\* and the 28 decoded signals)
Csv_HeaderSignals ==
    <<44, 77, 101, 115, 115, 97, 103, 101, 44, 77, 67, 85, 95, 83, 116,
      97, 116, 117, 115, 46, 77, 111, 116, 111, 114, 95, 115, 112, 101,
      101, 100, 44, 77, 67, 85, 95, 83, 116, 97, 116, 117, 115, 46, 71,
      101, 97, 114, 95, 115, 116, 97, 116, 117, 115, 44, 77, 67, 85, 95,
      83, 116, 97, 116, 117, 115, 46, 83, 116, 97, 116, 117, 115, 95, 102,
      101, 101, 100, 98, 97, 99, 107, 49, 44, 77, 67, 85, 95, 83, 116, 97,
      116, 117, 115, 46, 83, 116, 97, 116, 117, 115, 95, 102, 101, 101,
      100, 98, 97, 99, 107, 50, 44, 77, 67, 85, 95, 83, 116, 97, 116, 117,
      115, 46, 83, 116, 97, 116, 117, 115, 95, 102, 101, 101, 100, 98, 97,
      99, 107, 51, 44, 77, 67, 85, 95, 83, 116, 97, 116, 117, 115, 46, 80,
      111, 119, 101, 114, 95, 109, 111, 100, 101, 44, 77, 67, 85, 95, 83,
      116, 97, 116, 117, 115, 46, 72, 97, 110, 100, 108, 101, 95, 111,
      112, 101, 110, 105, 110, 103, 44, 77, 67, 85, 95, 84, 101, 109, 112,
      101, 114, 97, 116, 117, 114, 101, 115, 46, 67, 111, 110, 116, 114,
      111, 108, 108, 101, 114, 95, 116, 101, 109, 112, 44, 77, 67, 85, 95,
      84, 101, 109, 112, 101, 114, 97, 116, 117, 114, 101, 115, 46, 77,
      111, 116, 111, 114, 95, 116, 101, 109, 112, 44, 77, 67, 85, 95, 84,
      101, 109, 112, 101, 114, 97, 116, 117, 114, 101, 115, 46, 66, 117,
      115, 95, 99, 117, 114, 114, 101, 110, 116, 44, 77, 67, 85, 95, 84,
      101, 109, 112, 101, 114, 97, 116, 117, 114, 101, 115, 46, 66, 117,
      115, 95, 118, 111, 108, 116, 97, 103, 101, 44, 77, 67, 85, 95, 84,
      101, 109, 112, 101, 114, 97, 116, 117, 114, 101, 115, 46, 80, 104,
      97, 115, 101, 95, 99, 117, 114, 114, 101, 110, 116, 95, 82, 77, 83,
      44, 77, 67, 85, 95, 83, 112, 101, 101, 100, 77, 105, 108, 101, 97,
      103, 101, 46, 83, 112, 101, 101, 100, 44, 77, 67, 85, 95, 83, 112,
      101, 101, 100, 77, 105, 108, 101, 97, 103, 101, 46, 87, 104, 101,
      101, 108, 95, 99, 105, 114, 99, 117, 109, 102, 101, 114, 101, 110,
      99, 101, 44, 77, 67, 85, 95, 83, 112, 101, 101, 100, 77, 105, 108,
      101, 97, 103, 101, 46, 83, 117, 98, 116, 111, 116, 97, 108, 95, 109,
      105, 108, 101, 97, 103, 101, 44, 77, 67, 85, 95, 83, 112, 101, 101,
      100, 77, 105, 108, 101, 97, 103, 101, 46, 77, 105, 108, 101, 115,
      95, 114, 101, 109, 97, 105, 110, 105, 110, 103, 44, 77, 67, 85, 95,
      83, 112, 101, 101, 100, 77, 105, 108, 101, 97, 103, 101, 46, 79, 98,
      108, 105, 103, 97, 116, 101, 44, 77, 67, 85, 95, 84, 111, 116, 97,
      108, 77, 105, 108, 101, 97, 103, 101, 46, 84, 111, 116, 97, 108, 95,
      109, 105, 108, 101, 97, 103, 101, 44, 77, 67, 85, 95, 86, 101, 114,
      115, 105, 111, 110, 46, 86, 101, 110, 100, 111, 114, 95, 99, 111,
      100, 101, 44, 77, 67, 85, 95, 86, 101, 114, 115, 105, 111, 110, 46,
      72, 87, 95, 118, 101, 114, 115, 105, 111, 110, 44, 77, 67, 85, 95,
      86, 101, 114, 115, 105, 111, 110, 46, 83, 87, 95, 118, 101, 114,
      115, 105, 111, 110, 44, 86, 67, 85, 95, 67, 111, 109, 109, 97, 110,
      100, 115, 46, 84, 117, 114, 110, 98, 97, 114, 95, 112, 101, 114, 99,
      101, 110, 116, 97, 103, 101, 44, 86, 67, 85, 95, 67, 111, 109, 109,
      97, 110, 100, 115, 46, 71, 101, 97, 114, 95, 99, 111, 109, 109, 97,
      110, 100, 115, 44, 86, 67, 85, 95, 67, 111, 109, 109, 97, 110, 100,
      115, 46, 70, 117, 110, 99, 116, 105, 111, 110, 95, 115, 119, 105,
      116, 99, 104, 44, 77, 67, 85, 95, 99, 117, 114, 114, 101, 110, 116,
      46, 73, 100, 95, 99, 117, 114, 114, 101, 110, 116, 44, 77, 67, 85,
      95, 99, 117, 114, 114, 101, 110, 116, 46, 73, 113, 95, 99, 117, 114,
      114, 101, 110, 116, 44, 84, 111, 114, 113, 117, 101, 115, 101, 110,
      115, 111, 114, 46, 84, 111, 114, 113, 117, 101, 44, 84, 111, 114,
      113, 117, 101, 115, 101, 110, 115, 111, 114, 46, 83, 112, 101, 101,
      100>>

\* the header line of the CSV sketch
Csv_HeaderText ==
    HeaderLineCan \o HeaderLineData(0) \o HeaderLineData(1) \o
    HeaderLineData(2) \o HeaderLineData(3) \o HeaderLineData(4) \o
    HeaderLineData(5) \o HeaderLineData(6) \o HeaderLineData(7) \o
    Csv_HeaderSignals

\* the message a frame identifier selects in the switch of writeCANMessage:
\* its name and the places of its signals among the 28 signal columns;
\* any other identifier is "UNKNOWN" and has no signal
Csv_Message(identifier) ==
    IF identifier = 1041 THEN [name |-> <<77, 67, 85, 95, 83, 116, 97, 116, 117, 115>>,
                                first |-> 1, last |-> 7]
    ELSE IF identifier = 1042 THEN [name |-> <<77, 67, 85, 95, 84, 101, 109, 112, 101, 114, 97, 116, 117, 114, 101, 115>>,
                                first |-> 8, last |-> 12]
    ELSE IF identifier = 561 THEN [name |-> <<77, 67, 85, 95, 83, 112, 101, 101, 100, 77, 105, 108, 101, 97, 103, 101>>,
                                first |-> 13, last |-> 17]
    ELSE IF identifier = 562 THEN [name |-> <<77, 67, 85, 95, 84, 111, 116, 97, 108, 77, 105, 108, 101, 97, 103, 101>>,
                                first |-> 18, last |-> 18]
    ELSE IF identifier = 1088 THEN [name |-> <<77, 67, 85, 95, 86, 101, 114, 115, 105, 111, 110>>,
                                first |-> 19, last |-> 21]
    ELSE IF identifier = 1045 THEN [name |-> <<86, 67, 85, 95, 67, 111, 109, 109, 97, 110, 100, 115>>,
                                first |-> 22, last |-> 24]
    ELSE IF identifier = 1043 THEN [name |-> <<77, 67, 85, 95, 99, 117, 114, 114, 101, 110, 116>>,
                                first |-> 25, last |-> 26]
    ELSE IF identifier = 1074 THEN [name |-> <<84, 111, 114, 113, 117, 101, 115, 101, 110, 115, 111, 114>>,
                                first |-> 27, last |-> 28]
    ELSE [name |-> <<85, 78, 75, 78, 79, 87, 78>>, first |-> 1, last |-> 0]

\* appendFloatField: String(value, decimals); with no decimals the text has
\* no decimal point (value in millionths)
Csv_appendFloatField(value, decimals) ==
    IF decimals = 0
    THEN (IF value < 0 THEN <<45>> ELSE <<>>) \o
         Dec(((IF value < 0 THEN 0 - value ELSE value) + 500000) \div 1000000)
    ELSE FloatStr(value, decimals)

\* the decimals writeCANMessage asks for in the i-th signal column
Csv_SignalDecimals(i) == IF i \in {10, 15, 16, 27} THEN 1 ELSE 0

\* the signal columns i..28 of a record: the decoded value in the columns
\* of the frame's message, 0 in every other column
RECURSIVE Csv_SignalColumns(_, _, _)
Csv_SignalColumns(i, message, value) ==
    IF i > 28 THEN <<>>
    ELSE Comma \o
         Csv_appendFloatField(IF i >= message.first /\ i <= message.last
                              THEN value ELSE 0, Csv_SignalDecimals(i)) \o
         Csv_SignalColumns(i + 1, message, value)

\* one data column of the CSV sketch: decimal, "0" beyond the DLC
Csv_DataColumn(frame, dlc, i) ==
    Comma \o (IF i < dlc THEN Dec(frame.data[i]) ELSE <<48>>)

\* the text writeCANMessage of the CSV sketch builds for one record; value
\* stands for what the frame's bytes decode to
Csv_RecordLine(frame, timestamp, micros, value, zone) ==
    LET dlc == IF frame.data_length_code > 8 THEN 8 ELSE frame.data_length_code
        message == Csv_Message(frame.identifier)
    IN  FormatTime(timestamp, zone) \o Comma \o Dec(timestamp) \o Comma \o
        Dec(micros) \o Comma \o Dec(frame.identifier) \o Comma \o
        (IF frame.extd THEN <<49>> ELSE <<48>>) \o Comma \o
        (IF frame.rtr THEN <<49>> ELSE <<48>>) \o Comma \o
        Dec(frame.data_length_code) \o
        Csv_DataColumn(frame, dlc, 0) \o Csv_DataColumn(frame, dlc, 1) \o
        Csv_DataColumn(frame, dlc, 2) \o Csv_DataColumn(frame, dlc, 3) \o
        Csv_DataColumn(frame, dlc, 4) \o Csv_DataColumn(frame, dlc, 5) \o
        Csv_DataColumn(frame, dlc, 6) \o Csv_DataColumn(frame, dlc, 7) \o
        Comma \o message.name \o Csv_SignalColumns(1, message, value)

\* the header line of Lastry
Lastry_HeaderText ==
    HeaderLineCan \o HeaderLineData(0) \o HeaderLineData(1) \o
    HeaderLineData(2) \o HeaderLineData(3) \o HeaderLineData(4) \o
    HeaderLineData(5) \o HeaderLineData(6) \o HeaderLineData(7)

\* the text writeCANMessage of Lastry builds for one record: the data
\* columns compare with the frame's DLC as it came
Lastry_RecordLine(frame, timestamp, micros, zone) ==
    LET dlc == frame.data_length_code
    IN  FormatTime(timestamp, zone) \o Comma \o Dec(timestamp) \o Comma \o
        Dec(micros) \o Comma \o HexUpper(frame.identifier) \o Comma \o
        (IF frame.extd THEN <<49>> ELSE <<48>>) \o Comma \o
        (IF frame.rtr THEN <<49>> ELSE <<48>>) \o Comma \o
        Dec(frame.data_length_code) \o
        DataColumn(frame, dlc, 0) \o DataColumn(frame, dlc, 1) \o
        DataColumn(frame, dlc, 2) \o DataColumn(frame, dlc, 3) \o
        DataColumn(frame, dlc, 4) \o DataColumn(frame, dlc, 5) \o
        DataColumn(frame, dlc, 6) \o DataColumn(frame, dlc, 7)

\* frames offered to the encoders: RecordFrames frames of each bus pattern,
\* as they came or with the identifier of a decoded message
RecordFrames == 11

RecordIdentifiers == {0, 1041, 1042, 561, 1074}

\* what a signal may decode to (millionths)
RecordSignalValues == {0, 7650000, 0 - 40000000, 1234500000}

\* a fix established by RMC sentences alone (parseGPRMC sets neither the
\* altitude, the satellites nor the HDOP), and a fix whose sentence had a
\* time token of fewer than six characters (formatGpsTime gives "0")
RecordSensorStates ==
    SensorStates \cup
    { [SensorsAll EXCEPT !.gpsAlt = 0, !.gpsSats = 0, !.gpsHdop = 0],
      [SensorsAll EXCEPT !.gpsTimeText = <<48>>] }

\* nothing encoded yet
InitRecord ==
    /\ SetupEncoded(BootScenarios[1], TRUE, TRUE)
    /\ csv = NotFlashed
    /\ lastry = NotFlashed
    /\ unit = [running |-> TRUE, kind |-> "record", called |-> FALSE]

\* one frame goes through storeLiveFrame and the three record encoders
RecordStep ==
    /\ unit.running
    /\ unit.kind = "record"
    /\ ~unit.called
    /\ \E p \in 0..1, k \in 1..RecordFrames, id \in RecordIdentifiers,
          sn \in RecordSensorStates, value \in RecordSignalValues :
          LET message   == RxFrame(p, k)
              frame     == IF id = 0 THEN message
                           ELSE [message EXCEPT !.identifier = id]
              timestamp == RtcEpoch + k
              micros    == (k * 123457) % 1000000
          IN  unit' = [ running |-> TRUE, kind |-> "record", called |-> TRUE,
                        frame |-> frame, sn |-> sn, value |-> value,
                        line |-> RecordLine(frame, timestamp, micros, sn,
                                            GMT_OFFSET_SEC),
                        csvLine |-> Csv_RecordLine(frame, timestamp, micros,
                                                   value, GMT_OFFSET_SEC),
                        lastryLine |-> Lastry_RecordLine(frame, timestamp,
                                                         micros, GMT_OFFSET_SEC),
                        live |-> LiveFrameOf(1, frame, timestamp, micros,
                                     FormatTime(timestamp, GMT_OFFSET_SEC)) ]
    /\ UNCHANGED <<encodedVars, csv, lastry>>

SpecRecord == InitRecord /\ [][RecordStep]_vars

\* the comma-separated fields of a line
Fields(line) == 1 + Cardinality({i \in 1..Len(line) : line[i] = 44})

\* a record was encoded
RecordEncoded == unit.running /\ unit.kind = "record" /\ unit.called

CommaPlaces(line) == {i \in 1..Len(line) : line[i] = 44}

\* the place of the k-th comma of a line
CommaPlace(line, k) ==
    LET places == CommaPlaces(line)
    IN  The({c \in places : Cardinality({j \in places : j <= c}) = k})

\* the n-th comma-separated field of a line
FieldOf(line, n) ==
    SubSeq(line,
           IF n = 1 THEN 1 ELSE CommaPlace(line, n - 1) + 1,
           IF n = Fields(line) THEN Len(line) ELSE CommaPlace(line, n) - 1)

\* the data length the record shows: the DLC, 8 at most
ShownLength(frame) ==
    IF frame.data_length_code > 8 THEN 8 ELSE frame.data_length_code

\* C26: every record has exactly 8 data columns; for a frame of data
\* length d (larger values than 8 count as 8) the columns 0..d-1 show the
\* frame's bytes as two upper-case hex digits and the columns d..7 are "00"
\* whatever the receive buffer holds there, and the ring-buffer copy of the
\* frame has data[i] = 0 for every i >= d
C26_DataColumns ==
    RecordEncoded =>
        LET d == ShownLength(unit.frame)
        IN  /\ Fields(unit.line) = 27
            /\ FieldOf(unit.line, 7) = Dec(unit.frame.data_length_code)
            /\ \A i \in 0..7 :
                  /\ FieldOf(unit.line, 8 + i) =
                         (IF i < d THEN Hex2(unit.frame.data[i])
                          ELSE <<48, 48>>)
                  /\ unit.live.data[i] = (IF i < d THEN unit.frame.data[i]
                                          ELSE 0)
            /\ Len(FieldOf(unit.line, 16)) > 2

\* a frame of three bytes was encoded whose buffer holds other bytes
\* beyond the third
C26_Witness ==
    /\ RecordEncoded
    /\ unit.frame.data_length_code = 3
    /\ unit.frame.data[5] # 0
    /\ FieldOf(unit.line, 13) = <<48, 48>>
    /\ unit.live.data[5] = 0

\* the text of the zero sentinel of an IMU column
ImuSentinel == <<48, 46, 48, 48, 48, 48>>

\* the four IMU fields of a record line, and its eight GPS fields
ImuFields(line) == [i \in 1..4 |-> FieldOf(line, 15 + i)]

GpsFields(line) == [i \in 1..8 |-> FieldOf(line, 19 + i)]

\* the texts of the four IMU variables, and of the eight GPS variables
ImuVariables(sn) ==
    << FloatStr(sn.linearAccelX, 4), FloatStr(sn.linearAccelY, 4),
       FloatStr(sn.linearAccelZ, 4), FloatStr(sn.gravityAccel, 4) >>

GpsVariables(sn) ==
    << FloatStr(sn.gpsLat, 6), FloatStr(sn.gpsLon, 6), FloatStr(sn.gpsAlt, 2),
       FloatStr(sn.gpsSpeed, 2), FloatStr(sn.gpsCourse, 2), Dec(sn.gpsSats),
       FloatStr(sn.gpsHdop, 2), sn.gpsTimeText >>

InitFlush ==
    InitWith([BootScenarios[1] EXCEPT !.frames = FlushFrames,
                                      !.faults = FlushFaults,
                                      !.downloads = MaxDownloads],
             TRUE, TRUE)

NextFlush ==
    \/ RxBegin
    \/ RxWrite
    \/ RxRecover
    \/ RxRetry
    \/ RemoveCard
    \/ InsertCard
    \/ HandleFileDownload

SpecFlush == InitFlush /\ [][NextFlush]_vars


\* the complete record lines of the open log file: its lines but the
\* header line ("Timestamp,...") a created file starts with
RecordsInOpenFile ==
    LET text == writer.text[writer.logFile.name]
    IN  Cardinality({p \in 1..Len(text) : text[p] = Newline}) -
        (IF Len(text) >= 1 /\ text[1] = HeaderLine[1] THEN 1 ELSE 0)

\* C28: each of the first 5 records written to a log file is flushed by
\* the write that wrote it, for the first file of a session and for every
\* file created later: while the open file, as createNewLogFile made it,
\* holds at most 5 records none of them waits for a flush
C28_EarlyWritesFlushed ==
    (/\ pc = "idle"
     /\ download.served = 0
     /\ writer.logFile.open
     /\ writer.logFile.name \in DOMAIN writer.text
     /\ RecordsInOpenFile >= 1
     /\ RecordsInOpenFile <= EARLY_FLUSH_WRITES)
        => writer.unflushed = 0


\* C29: at every return of writeCANMessage fewer than FLUSH_INTERVAL
\* records have been written since the log file was last flushed, across
\* file creations, recoveries and the reopen after a download
C29_UnflushedBelowInterval ==
    /\ writer.unflushed < FLUSH_INTERVAL
    /\ writer.unflushed <= writer.flushCounter
    /\ writer.flushCounter < FLUSH_INTERVAL

\* nineteen records wait for a flush, in a session that has flushed on the
\* counter before and has created a file anew
C29_Witness ==
    /\ pc = "idle"
    /\ writer.logFile.open
    /\ messageCount > FLUSH_INTERVAL
    /\ Len(writer.createdNames) >= 2
    /\ writer.unflushed = FLUSH_INTERVAL - 1
    /\ writer.flushCounter = FLUSH_INTERVAL - 1


(* ------------------------------------------------------------------ *)
(* The receive loop of loop(): frames handled in one call               *)
(* ------------------------------------------------------------------ *)
\* maxProcessPerCall of the sketch: const uint8_t 200 in the encrypted
\* logger, const uint16_t 400 in the CSV sketch
maxProcessPerCall(sketch) == IF sketch = "encoded" THEN 200 ELSE 400

\* setup is done and loop() is about to be called; handled counts the
\* frames the current loop() call has handled, checks the calls that went
\* on to the periodic checks
InitBatch ==
    /\ SetupEncoded(BootScenarios[1], TRUE, TRUE)
    /\ csv = NotFlashed
    /\ lastry = NotFlashed
    /\ \E sketch \in {"encoded", "csv"} :
          unit = [ running |-> TRUE, kind |-> "batch", sketch |-> sketch,
                   at |-> "loop", processedCount |-> 0, handled |-> 0,
                   checks |-> 0 ]

\* loop() is called: "uint8_t processedCount = 0;"
BatchEnter ==
    /\ unit.running /\ unit.kind = "batch"
    /\ unit.at = "loop"
    /\ unit.checks < BatchMaxLoops
    /\ unit' = [unit EXCEPT !.at = "receive", !.processedCount = 0,
                            !.handled = 0]
    /\ UNCHANGED <<encodedVars, csv, lastry>>

\* one pass of the while loop with a frame on the bus: the frame is
\* handled and the 8-bit processedCount incremented
BatchReceive ==
    /\ unit.running /\ unit.kind = "batch"
    /\ unit.at = "receive"
    /\ unit.processedCount < maxProcessPerCall(unit.sketch)
    /\ unit.handled < BatchMaxFrames
    /\ unit' = [unit EXCEPT !.processedCount = (@ + 1) % 256,
                            !.handled = @ + 1]
    /\ UNCHANGED <<encodedVars, csv, lastry>>

\* the while loop ends, on its bound or on twai_receive timing out, and
\* loop() goes on to its periodic checks and returns
BatchLeave ==
    /\ unit.running /\ unit.kind = "batch"
    /\ unit.at = "receive"
    /\ unit' = [unit EXCEPT !.at = "loop", !.checks = @ + 1]
    /\ UNCHANGED <<encodedVars, csv, lastry>>

NextBatch ==
    \/ BatchEnter
    \/ BatchReceive
    \/ BatchLeave

SpecBatch == InitBatch /\ [][NextBatch]_vars

\* C30: in each variant one call of loop() handles at most
\* maxProcessPerCall frames (200 in the encrypted logger, 400 in the CSV
\* sketch) before it leaves the receive loop
C30_BatchBounded ==
    (unit.running /\ unit.kind = "batch")
        => unit.handled <= maxProcessPerCall(unit.sketch)


(* ------------------------------------------------------------------ *)
(* C31: a failed write of the CSV sketch                                *)
(* ------------------------------------------------------------------ *)
\* C31: in the CSV sketch, when writeCANMessage fails the record is
\* dropped and no log file is left open, so that a new file has to be
\* created before a later frame is written.
C31_FailedWriteClosesFile ==
    (csv.running /\ csv.last.called /\ ~csv.last.ok) =>
        /\ csv.last.n \notin Csv_RecordsOnCard(csv)
        /\ ~csv.logFile


(* ------------------------------------------------------------------ *)
(* C32: the Microseconds field                                          *)
(* ------------------------------------------------------------------ *)
\* C32: the Microseconds value handed to the writer with every record and
\* stored with every live frame is a sub-second fraction, an integer in
\* 0..999999, with the RTC and with the base time alone.
C32_MicrosIsFraction ==
    /\ \A i \in 1..Len(writer.submitted) :
           writer.submitted[i].micros \in 0..999999
    /\ \A s \in DOMAIN liveFrameBuffer :
           liveFrameBuffer[s].micros \in 0..999999


(* ------------------------------------------------------------------ *)
(* C33: what createNewLogFile puts into a file                          *)
(* ------------------------------------------------------------------ *)
\* the bytes of the open log file
OpenFileBytes == writer.disk[writer.logFile.name]

\* the first payload bytes of the open file (those of the header line and
\* its newline), decrypted with the keystream of the nonce in the header
OpenFileFirstLine ==
    EncryptBytes(resetCipherState(HeaderNonce(OpenFileBytes)),
                 SubSeq(OpenFileBytes, NXT_HEADER_SIZE + 1,
                        NXT_HEADER_SIZE + Len(HeaderLine) + 1)).out

\* C33: a file createNewLogFile has opened starts with the 16 unencrypted
\* header bytes (NXTLOG, version 1, header size 16, the nonce little-endian
\* at offset 8, four zero bytes), followed by the CSV header line and its
\* newline encrypted with the keystream of that same nonce; records come
\* after the header line only, the nonce of the header is the one the
\* cipher was seeded with, and nothing waits for a flush once the file is
\* created.
C33_FileStartsWithHeader ==
    writer.logFile.open =>
        /\ Len(OpenFileBytes) >= NXT_HEADER_SIZE + Len(HeaderLine) + 1
        /\ SubSeq(OpenFileBytes, 1, 8) = <<78, 88, 84, 76, 79, 71, 1, 16>>
        /\ OpenFileBytes[9] = writer.currentFileNonce[2] % 256
        /\ OpenFileBytes[10] = writer.currentFileNonce[2] \div 256
        /\ OpenFileBytes[11] = writer.currentFileNonce[1] % 256
        /\ OpenFileBytes[12] = writer.currentFileNonce[1] \div 256
        /\ SubSeq(OpenFileBytes, 13, 16) = <<0, 0, 0, 0>>
        /\ OpenFileFirstLine = Append(HeaderLine, Newline)
        /\ Len(OpenFileBytes) = NXT_HEADER_SIZE + Len(HeaderLine) + 1
               => writer.unflushed = 0

\* the recovery after a failed write has just created the session's second
\* file, which holds its header and header line and nothing else
C33_Witness ==
    /\ writer.logFile.open
    /\ Len(writer.createdNames) >= 2
    /\ Len(OpenFileBytes) = NXT_HEADER_SIZE + Len(HeaderLine) + 1
    /\ writer.currentFileNonce[1] # writer.currentFileNonce[2]


(* ------------------------------------------------------------------ *)
(* C34: what one writeCANMessage call adds to the file                  *)
(* ------------------------------------------------------------------ *)
\* the size of a file that holds its header and header line only
FreshFileSize == NXT_HEADER_SIZE + Len(HeaderLine) + 1

\* C34: a writeCANMessage call that returns true has appended to the open
\* file exactly one line, the encrypted bytes of the record's CSV text and
\* one encrypted newline, the text holding no newline, and currentFileSize
\* has grown by the text's length plus one; a call whose line write fails
\* leaves currentFileSize where it stood before the line (the value of the
\* call's entry, or that of the file the call itself created).
C34_WriteAppendsOneLine ==
    [][ frameStats'.writeCalls = frameStats.writeCalls + 1 =>
          LET line    == SubmittedLine(Len(writer.submitted))
              created == frameStats'.creates > frameStats.creates
              tried   == frameStats'.writes > frameStats.writes
              name    == writer'.logFile.name
              before  == IF created THEN FreshFileSize
                         ELSE writer.currentFileSize
              bytes0  == IF created THEN FreshFileSize
                         ELSE Len(writer.disk[writer.logFile.name])
              text0   == IF created THEN Append(HeaderLine, Newline)
                         ELSE writer.text[writer.logFile.name]
          IN  /\ \A k \in 1..Len(line) : line[k] # Newline
              /\ frameStats'.atReturn.ok =>
                   /\ tried
                   /\ writer'.logFile.open
                   /\ ~created => name = writer.logFile.name
                   /\ writer'.text[name] = text0 \o line \o <<Newline>>
                   /\ Len(writer'.disk[name]) = bytes0 + Len(line) + 1
                   /\ DecodedText(writer'.disk[name]) = writer'.text[name]
                   /\ writer'.currentFileSize = before + Len(line) + 1
              /\ ~frameStats'.atReturn.ok /\ tried =>
                   writer'.currentFileSize = before
              /\ ~frameStats'.atReturn.ok /\ ~created =>
                   writer'.currentFileSize = writer.currentFileSize ]_vars

\* a record has been appended to a file that already held records, and a
\* line write has failed in the session
C34_Witness ==
    /\ pc = "idle"
    /\ frameStats.atReturn.ok
    /\ frameStats.writes >= 1
    /\ writer.byteFailures >= 1
    /\ writer.logFile.open
    /\ writer.currentFileSize > FreshFileSize + Len(SubmittedLine(Len(writer.submitted))) + 1


C36_NotReadyIsClosed ==
    (pc = "idle" /\ ~writer.sdCardReady) => ~writer.logFile.open


(* ------------------------------------------------------------------ *)
(* C37: the active file after a download                                *)
(* ------------------------------------------------------------------ *)
\* C37: when handleFileDownload has closed the active log file, it returns
\* with the log file open again or with sdCardReady false.
C37_DownloadReopensOrMarks ==
    (pc = "idle" /\ download.status # 0 /\ download.closed) =>
        (writer.logFile.open \/ ~writer.sdCardReady)


(* ------------------------------------------------------------------ *)
(* C38: the time stamps of consecutive frames                           *)
(* ------------------------------------------------------------------ *)
\* the stamp a sketch's loop gives a frame: part_001 has the branch with
\* micros() only (lines 885-889)
SketchFrameTime(sketch, rtc, base, ms, bootMs) ==
    IF sketch = "csv" THEN FrameTime(TRUE, base, ms, bootMs)
    ELSE FrameTime(rtc, base, ms, bootMs)

NoStamp == [timestamp |-> 0, micros |-> 0]

\* setup has set baseTime and bootMillis = millis()
InitClock ==
    /\ SetupEncoded(BootScenarios[1], TRUE, TRUE)
    /\ csv = NotFlashed
    /\ lastry = NotFlashed
    /\ \E sketch \in {"encoded", "csv"}, rtc \in BOOLEAN, boot \in ClockBoots :
          unit = [ running |-> TRUE, kind |-> "clock", sketch |-> sketch,
                   rtcAvailable |-> rtc, millis |-> boot, bootMillis |-> boot,
                   baseTime |-> IF rtc THEN getRTCTime(boot, 0)
                                ELSE CompileTime,
                   frames |-> 0, earlier |-> NoStamp, later |-> NoStamp,
                   resynced |-> FALSE, between |-> FALSE ]

\* time passes
ClockPause ==
    /\ unit.running /\ unit.kind = "clock"
    /\ \E d \in ClockPauses :
         /\ unit.millis + d <= ClockMaxMillis
         /\ unit' = [unit EXCEPT !.millis = @ + d]
    /\ UNCHANGED <<encodedVars, csv, lastry>>

\* loop stamps the frame it has received
ClockFrame ==
    /\ unit.running /\ unit.kind = "clock"
    /\ unit.frames < ClockMaxFrames
    /\ unit' = [unit EXCEPT
                  !.frames = @ + 1,
                  !.earlier = unit.later,
                  !.later = SketchFrameTime(unit.sketch, unit.rtcAvailable,
                                            unit.baseTime, unit.millis,
                                            unit.bootMillis),
                  !.between = unit.resynced,
                  !.resynced = FALSE]
    /\ UNCHANGED <<encodedVars, csv, lastry>>

\* the clock is set again (NTP sync, lines 597-598; card re-detection with
\* the RTC, lines 746-747): baseTime = the time now, bootMillis = millis()
ClockResync ==
    /\ unit.running /\ unit.kind = "clock"
    /\ unit.sketch = "encoded"
    /\ ~unit.resynced
    /\ unit' = [unit EXCEPT !.baseTime = getRTCTime(unit.millis, 0),
                            !.bootMillis = unit.millis,
                            !.resynced = TRUE]
    /\ UNCHANGED <<encodedVars, csv, lastry>>

NextClock == ClockPause \/ ClockFrame \/ ClockResync

SpecClock == InitClock /\ [][NextClock]_vars

\* C38: of two frames received one after the other with no clock
\* resynchronisation between them, the later one's (UnixTime, Microseconds)
\* pair is not smaller in lexicographic order than the earlier one's.
C38_StampsNotBackwards ==
    (unit.running /\ unit.kind = "clock" /\ unit.frames >= 2
        /\ ~unit.between) =>
        \/ unit.earlier.timestamp < unit.later.timestamp
        \/ /\ unit.earlier.timestamp = unit.later.timestamp
           /\ unit.earlier.micros <= unit.later.micros


(* ------------------------------------------------------------------ *)
(* C39: createNewLogFile and the file handle                            *)
(* ------------------------------------------------------------------ *)
\* the step holds a createNewLogFile call of the loop itself (with the
\* frame's arrival, or as the recovery after a failed write)
LoopCreates ==
    \/ /\ messageCount' = messageCount + 1
       /\ frameStats'.creates = 1
    \/ /\ pc = "recover"
       /\ frameStats'.creates = frameStats.creates + 1

\* the step holds a writeCANMessage call whose createNewLogFile failed
WriteCreateFailed ==
    /\ frameStats'.writeCalls = frameStats.writeCalls + 1
    /\ frameStats'.creates = frameStats.creates + 1
    /\ frameStats'.writes = frameStats.writes

\* C39: a createNewLogFile call that returns false leaves no log file open,
\* whether or not one was open before; a call that returns true leaves a
\* file open that holds the complete 16-byte header and the complete
\* encrypted header line, with currentFileSize equal to the size of the
\* file on the card.
C39_CreateAllOrNothing ==
    [][ /\ LoopCreates =>
             IF Len(writer'.createdNames) > Len(writer.createdNames)
             THEN /\ writer'.logFile.open
                  /\ writer'.logFile.name = writer'.currentLogFileName
                  /\ Len(writer'.disk[writer'.logFile.name]) = FreshFileSize
                  /\ SubSeq(writer'.disk[writer'.logFile.name], 1, 6)
                        = <<78, 88, 84, 76, 79, 71>>
                  /\ writer'.text[writer'.logFile.name]
                        = Append(HeaderLine, Newline)
                  /\ writer'.currentFileSize
                        = Len(writer'.disk[writer'.logFile.name])
             ELSE ~writer'.logFile.open
        /\ pc = "recover" =>
             (frameStats'.recovered = "ok"
                 <=> Len(writer'.createdNames) > Len(writer.createdNames))
        /\ WriteCreateFailed =>
             /\ ~frameStats'.atReturn.ok
             /\ ~writer'.logFile.open ]_vars

\* in the handling of one frame the recovery's createNewLogFile has returned
\* true and the createNewLogFile of the retry has then failed: the file the
\* recovery had opened is closed
C39_Witness ==
    /\ pc = "idle"
    /\ frameStats.recovered = "ok"
    /\ frameStats.retried = "failed"
    /\ frameStats.creates = 2
    /\ frameStats.writes = 1
    /\ ~writer.logFile.open
    /\ Len(writer.createdNames) >= 2

====
